---- MODULE Spec2Model ----
(***************************************************************************)
(* A model of the equation-assembly core of DREAM: the BlockMatrix         *)
(* addressing (fvm/BlockMatrix.cpp), the Solver's rebuild / assembly       *)
(* pipeline (src/Solver/Solver.cpp), the storage of unknown quantities     *)
(* (fvm/QuantityData.cpp) and the coefficient-buffer ownership of          *)
(* AdvectionTerm / DiffusionTerm.                                          *)
(*                                                                         *)
(* Each component has a specification of its own (SpecBM, ...): the        *)
(* variables of the other components keep their initial values there.      *)
(***************************************************************************)
EXTENDS Integers, Sequences, FiniteSets, TLC

(***************************************************************************)
(* Bounds of the model.                                                    *)
(***************************************************************************)
\* Largest number of CreateSubEquation calls on one BlockMatrix.
MaxSubEq == 3

\* Number of unknown quantities of the equation system.
NumUnknowns == 3
\* Number of elements of every unknown quantity.
NElem == 2

\* Number of coefficient buffers that may ever be allocated.
MaxBuffers == 3

\* Sizes 'n' and non-zero budgets 'nnz' handed to CreateSubEquation.
SubEqSizes == {1, 2, 5}
NnzValues == {3}

(***************************************************************************)
(* BlockMatrix state.                                                      *)
(*   subeqs, next_subindex, blockn : fields of BlockMatrix                 *)
(*   rowOffset, colOffset, matM, allocated, nnzl : fields of the Matrix    *)
(*      base (matM: dimension of the square backing matrix, allocated:     *)
(*      Construct has allocated one, nnzl: its per-row budget)             *)
(*   bmAlloc : what the last call allocated: "none", the "first" backing   *)
(*         matrix, or one "again" while an earlier one existed             *)
(*   bmOp, bmArgs, bmRet, bmErr : the last call, the (i, j) it was given   *)
(*         when it was a SetElement, its return value (-1: none) and its   *)
(*         error ("none": it returned normally)                            *)
(*   sel : block pair of the last successful SelectSubEquation that no     *)
(*         SetOffset call has overridden (<<-1,-1>>: none)                 *)
(*   written : global (row, col) the last call wrote to, when that call    *)
(*         was a SetElement that succeeded                                 *)
(*   touched : <<first row, number of rows>> of the range whose matrix     *)
(*         entries the last call changed, when that call was a             *)
(*         ZeroEquation or IMinusDtA that succeeded                        *)
(* For GetOffset, SelectSubEquation and ZeroEquation bmArgs holds the      *)
(* block indices given (<<k, -1>> when there is one only).                 *)
(***************************************************************************)
VARIABLES subeqs, next_subindex, blockn, rowOffset, colOffset, matM, allocated,
          nnzl, bmOp, bmArgs, bmRet, bmErr, bmAlloc, sel, written, touched

bmVars == <<subeqs, next_subindex, blockn, rowOffset, colOffset, matM, allocated,
            nnzl, bmOp, bmArgs, bmRet, bmErr, bmAlloc, sel, written, touched>>

(***************************************************************************)
(* Solver state (src/Solver/Solver.cpp) and the unknowns it works on.      *)
(*   kinds : per unknown id, "nontrivial" (in nontrivial_unknowns, a block *)
(*         of the matrix) or "predetermined" (eqn->IsPredetermined())      *)
(*   coupling : shape of the equations, "diag" (one operator, on the       *)
(*         unknown itself) or "dense" (an operator on every unknown)       *)
(*   hasHottail, hasRunaway, hasSPI : cqh_hottail, cqh_runaway, SPI are    *)
(*         not nullptr                                                     *)
(*   data, hasChanged : QuantityData::data / hasChanged of every unknown   *)
(*   src : what the data source of a predetermined unknown gave in the     *)
(*         running call (<< >>: not asked yet)                             *)
(*   data0 : data when the running call started                            *)
(*   pcS, pos : position in the running Solver routine and its loop index  *)
(*   log : the calls the running Solver routine has made, in order         *)
(*   jmat, rhs : contents of the matrix and right-hand side handed to      *)
(*         BuildMatrix / BuildJacobian                                     *)
(***************************************************************************)
VARIABLES kinds, coupling, hasHottail, hasRunaway, hasSPI, data, hasChanged,
          src, data0, pcS, pos, log, jmat, rhs

cfgVars == <<kinds, coupling, hasHottail, hasRunaway, hasSPI>>
solverVars == <<cfgVars, data, hasChanged, src, data0, pcS, pos, log, jmat, rhs>>

(***************************************************************************)
(* An equation term with grid-shaped coefficients (AdvectionTerm and       *)
(* DiffusionTerm manage their coefficient buffers with the same code) and  *)
(* the heap its buffers live on.                                           *)
(*   heap : buffer id -> [state, owner, shape, zero]; state is "unused",   *)
(*          "live" or "freed"; owner is who allocated it ("term" or "ext");*)
(*          zero: every coefficient in it is 0                             *)
(*   coef : the term's coefficient pointers (0: nullptr)                   *)
(*   coefficientsShared : field of the term                                *)
(*   termShape : nr, n1, n2 cached by EquationTerm                         *)
(*   gridShape : current size of the grid                                  *)
(*   life : "none" (no term), "alive", "destroyed", or "crashed" after a   *)
(*          delete[] of memory that had been freed already                 *)
(*   tOp, tRealloc, tResized : the last call, whether it allocated new     *)
(*          buffers, and whether the grid size differed from the cached    *)
(*          one when it was made                                           *)
(***************************************************************************)
VARIABLES heap, coef, coefficientsShared, termShape, gridShape, life,
          tOp, tRealloc, tResized

termVars == <<heap, coef, coefficientsShared, termShape, gridShape, life,
              tOp, tRealloc, tResized>>

(***************************************************************************)
(* One advection or diffusion term at work on a grid: the stencil it       *)
(* applies, the matrix and the vectors it writes to.                       *)
(*   tgrid : [nr, np1, np2], the same momentum grid at every radius        *)
(*   termKind : "advection" or "diffusion" ("none": no term at work)       *)
(*   coefSeed : which coefficient arrays the term holds                    *)
(*   interp : "default" (interpolation coefficients as allocated) or       *)
(*          "explicit" (set by SetInterpolationCoefficients)               *)
(*   pastEnd : what lies in memory one element past the end of a           *)
(*          coefficient array (F) and of an interpolation array (d)        *)
(*   derivIds, derivNMultiples : the registered dependencies of the term   *)
(*   jArgs : <<uqtyId, derivId>> of the last SetJacobianBlock              *)
(*   xvec, tvec : the vector x a term is applied to and the vector it adds  *)
(*          to, as functions of the global cell index                      *)
(*   mat : the matrix, a function of <<row, column>>                       *)
(*   calls : the SetElement calls made, in order                           *)
(*   pcT, lp : position in the running call and its loop variables         *)
(* Interpolation coefficients are kept in halves (1 stands for 0.5), and   *)
(* with them every matrix and vector value of an advection term is kept    *)
(* doubled.                                                                *)
(***************************************************************************)
VARIABLES tgrid, termKind, coefSeed, interp, pastEnd, derivIds,
          derivNMultiples, jArgs, xvec, tvec, mat, calls, pcT, lp

stVars == <<tgrid, termKind, coefSeed, interp, pastEnd, derivIds,
            derivNMultiples, jArgs, xvec, tvec, mat, calls, pcT, lp>>

(***************************************************************************)
(* One QuantityData object (QuantityData.cpp), and the Solver's per-unknown*)
(* norms (Solver.cpp).                                                     *)
(*   qData, olddata : the buffers data and olddata                         *)
(*   oldtime : time of the previous step                                   *)
(*   times, store : the saved steps; store holds pointers, 0 being the     *)
(*          address of olddata and k > 0 that of the k-th array made by    *)
(*          new                                                            *)
(*   qheap : the arrays made by new, by number (<< >>: not made yet)       *)
(*   qChanged : the field hasChanged                                       *)
(*   nontrivial_unknowns, matrix_size : fields of the Solver               *)
(*   nvec, retvec : the arguments vec and retvec of the last               *)
(*          CalculateNonTrivial2Norm, retvec as left by the call           *)
(*   qOp : the last call made                                              *)
(*   qArgs : the arguments of the last call on the QuantityData object     *)
(***************************************************************************)
VARIABLES qData, olddata, oldtime, times, store, qheap, qChanged,
          nontrivial_unknowns, matrix_size, nvec, retvec, qOp, qArgs

qVars == <<qData, olddata, oldtime, times, store, qheap, qChanged,
           nontrivial_unknowns, matrix_size, nvec, retvec, qOp, qArgs>>

(***************************************************************************)
(* One RadialGrid object (RadialGrid.cpp).                                 *)
(*   nr : the field nr                                                     *)
(*   momentumGrids : the array momentumGrids, element ir being the         *)
(*          momentum grid [np1, np2] that the pointer of radius ir points  *)
(*          at                                                             *)
(*   gridOp, gridRet : the last call made and the value it returned        *)
(***************************************************************************)
VARIABLES nr, momentumGrids, gridOp, gridRet

gridVars == <<nr, momentumGrids, gridOp, gridRet>>

(***************************************************************************)
(* One Settings object (Settings.cpp).                                     *)
(*   settings : the map 'settings' from names to setting_t records         *)
(*          [type, ndims, dims, value, used, mandatory]                    *)
(*   setOp : the last call made                                            *)
(*   setErr : the SettingsException it threw, by its message, or "none"    *)
(***************************************************************************)
VARIABLES settings, setOp, setErr

setVars == <<settings, setOp, setErr>>

(***************************************************************************)
(* One SPIHandler object (SPIHandler.cpp).  Radial coordinates are kept    *)
(* doubled, so that the cell faces r_f(ir) are the even numbers 2*ir and   *)
(* the odd numbers lie strictly inside a cell.                             *)
(*   nShard : the number of shards                                         *)
(*   rCoordPPrevious, rCoordPNext : the shards' radial coordinates before  *)
(*          and after the time step                                        *)
(*   turningPoint : per shard, what the geometry of its path gives:        *)
(*          [passed] whether the sign test finds a turning point, and      *)
(*          [closest] what FindClosestApproach returns for it              *)
(*   rCoordPClosestApproach : the field of that name                       *)
(*   sourceSteps : per shard, the averaging steps the last                 *)
(*          CalculateTimeAveragedDeltaSourceLocal took, each with its      *)
(*          rSourceMin, rSourceMax and whether the closest approach it     *)
(*          used had been computed for this shard                          *)
(*   timeAveragedDeltaSource : per shard and cell, the terms added to the  *)
(*          profile, each <<length of the overlap, length of the range>>   *)
(*   irp : the array irp                                                   *)
(*   spiOp : the last call made                                            *)
(***************************************************************************)
VARIABLES nShard, rCoordPPrevious, rCoordPNext, turningPoint,
          rCoordPClosestApproach, sourceSteps, timeAveragedDeltaSource,
          irp, spiOp

spiVars == <<nShard, rCoordPPrevious, rCoordPNext, turningPoint,
             rCoordPClosestApproach, sourceSteps, timeAveragedDeltaSource,
             irp, spiOp>>

(***************************************************************************)
(* The ion densities that ConstructEquation_Ions initialises.              *)
(*   ionSetup : [Nr, Z, types], the number of radii and, per ion species,  *)
(*          its charge number and how its densities are given              *)
(*   dynamic_densities : the array LoadDataIonR returns                    *)
(*   ni : the array ni handed to SetInitialValue                           *)
(*   niWrites : the assignments 'ni[pos] = dynamic_densities[src]' made,   *)
(*          in order, each with the species, charge state and radius it    *)
(*          was made for                                                   *)
(*   ionOp : the last call made                                            *)
(***************************************************************************)
VARIABLES ionSetup, dynamic_densities, ni, niWrites, ionOp

ionVars == <<ionSetup, dynamic_densities, ni, niWrites, ionOp>>

(***************************************************************************)
(* The arrays of one AdvectionTerm or DiffusionTerm, allocation by         *)
(* allocation (part_007, DiffusionTerm.cpp).                               *)
(*   allocations : every array made by new so far, in order, each          *)
(*          [what, owner, deleted]: what it is, whether the term or        *)
(*          another owner made it, and how often delete [] was applied to  *)
(*          it.  A pointer is the number of an allocation, 0 is nullptr.   *)
(*   coefPtr : the coefficient pointers (fr, f1, f2, f1pSqAtZero, or drr,  *)
(*          d11, d12, d21, d22), which are allocated and freed together    *)
(*   diffPtr : the differentiation coefficient pointers: [df] the arrays   *)
(*          dfr, df1, df2 (ddrr, dd11, ...) with the data of multiple 0,   *)
(*          [more] the data of the further multiples, [pSq] the array      *)
(*          df1pSqAtZero with its data, [jc] JacobianColumn                *)
(*   shared : the field coefficientsShared                                 *)
(*   bufSetup : [kind, nMultiples], the class of the term and what         *)
(*          MaxNMultiple() returns                                         *)
(*   bufLife : "none", "alive" or "destroyed"                              *)
(*   bufOp : the last call made                                            *)
(***************************************************************************)
VARIABLES allocations, coefPtr, diffPtr, shared, bufSetup, bufLife, bufOp

bufVars == <<allocations, coefPtr, diffPtr, shared, bufSetup, bufLife, bufOp>>

(***************************************************************************)
(* One PXiExternalKineticKinetic boundary condition (part_007) at work in  *)
(* __SetElements.                                                          *)
(*   pxiGrid : [lxi_f, uxi_f, nr], the pitch faces GetP2_f() of the lower  *)
(*          and of the upper momentum grid (element k + 1 is face k), the  *)
(*          same at all nr radii                                           *)
(*   pxiType : the field type                                              *)
(*   pxiLoop : the variables ir, j, J, loffset, uoffset                    *)
(*   pxiCalls : the cell pairs the loop body ran for, in order, each with  *)
(*          ir, j, J, dxiBar and the indices handed to fLow and fUpp       *)
(*   pxiBadRead : whether a cell j >= lnxi or J >= unxi has been read      *)
(*   pxiPc : "none", "for" (at the test of the loop over j, J), "do" (at   *)
(*          the head of the do-loop) or "done"                             *)
(***************************************************************************)
VARIABLES pxiGrid, pxiType, pxiLoop, pxiCalls, pxiBadRead, pxiPc

pxiVars == <<pxiGrid, pxiType, pxiLoop, pxiCalls, pxiBadRead, pxiPc>>

\* The objects beside the equation system: grids, settings, pellets, ions,
\* the arrays of a term and a boundary condition.
compVars == <<gridVars, setVars, spiVars, ionVars, bufVars, pxiVars>>

vars == <<bmVars, solverVars, termVars, stVars, qVars, compVars>>

\* What a BlockMatrix call, and what a Solver call, leaves alone.
besideBM == <<solverVars, termVars, stVars, qVars, compVars>>
besideSolver == <<termVars, stVars, qVars, compVars>>
besideTerm == <<bmVars, solverVars, stVars, qVars, compVars>>
besideStencil == <<bmVars, solverVars, termVars, qVars, compVars>>
besideQuantity == <<bmVars, solverVars, termVars, stVars, compVars>>
besideComp == <<bmVars, solverVars, termVars, stVars, qVars>>
besideGrid == <<besideComp, setVars, spiVars, ionVars, bufVars, pxiVars>>
besideSettings == <<besideComp, gridVars, spiVars, ionVars, bufVars, pxiVars>>
besideSPI == <<besideComp, gridVars, setVars, ionVars, bufVars, pxiVars>>
besideIons == <<besideComp, gridVars, setVars, spiVars, bufVars, pxiVars>>
besideBuffers == <<besideComp, gridVars, setVars, spiVars, ionVars, pxiVars>>
besidePXi == <<besideComp, gridVars, setVars, spiVars, ionVars, bufVars>>

Buffers == 1..MaxBuffers
GridShapes == {1, 2}
NoBuffer == [state |-> "unused", owner |-> "none", shape |-> 0, zero |-> FALSE]

\* No term exists.
InitTermNone ==
    /\ heap = [b \in Buffers |-> NoBuffer]
    /\ coef = 0
    /\ coefficientsShared = FALSE
    /\ termShape = 1
    /\ gridShape = 1
    /\ life = "none"
    /\ tOp = "none"
    /\ tRealloc = FALSE
    /\ tResized = FALSE

NoPair == <<-1, -1>>

NoLoop == [ir |-> 0, j |-> 0, i |-> 0, idx |-> 0, S1 |-> 0, offset |-> 0]

\* No QuantityData object and no norm in the picture.
InitQuantityNone ==
    /\ qData = << >>
    /\ olddata = << >>
    /\ oldtime = 0
    /\ times = << >>
    /\ store = << >>
    /\ qheap = << >>
    /\ qChanged = FALSE
    /\ nontrivial_unknowns = << >>
    /\ matrix_size = 0
    /\ nvec = << >>
    /\ retvec = << >>
    /\ qOp = "none"
    /\ qArgs = << >>

\* No grid is in the picture.
InitGridNone ==
    /\ nr = 0
    /\ momentumGrids = << >>
    /\ gridOp = "none"
    /\ gridRet = 0

\* No Settings object is in the picture.
InitSettingsNone ==
    /\ settings = << >>
    /\ setOp = "none"
    /\ setErr = "none"

\* No SPIHandler object is in the picture.
InitSPINone ==
    /\ nShard = 0
    /\ rCoordPPrevious = << >>
    /\ rCoordPNext = << >>
    /\ turningPoint = << >>
    /\ rCoordPClosestApproach = 0
    /\ sourceSteps = << >>
    /\ timeAveragedDeltaSource = << >>
    /\ irp = << >>
    /\ spiOp = "none"

\* No ion species is in the picture.
InitIonsNone ==
    /\ ionSetup = [Nr |-> 0, Z |-> << >>, types |-> << >>]
    /\ dynamic_densities = << >>
    /\ ni = << >>
    /\ niWrites = << >>
    /\ ionOp = "none"

NoDiffPtr == [df |-> 0, more |-> << >>, pSq |-> 0, jc |-> 0]

\* No term's arrays are in the picture.
InitBuffersNone ==
    /\ allocations = << >>
    /\ coefPtr = 0
    /\ diffPtr = NoDiffPtr
    /\ shared = FALSE
    /\ bufSetup = [kind |-> "none", nMultiples |-> 0]
    /\ bufLife = "none"
    /\ bufOp = "none"

\* No boundary condition is at work.
InitPXiNone ==
    /\ pxiGrid = [lxi_f |-> << >>, uxi_f |-> << >>, nr |-> 0]
    /\ pxiType = "none"
    /\ pxiLoop = [ir |-> 0, j |-> 0, J |-> 0, loffset |-> 0, uoffset |-> 0]
    /\ pxiCalls = << >>
    /\ pxiBadRead = FALSE
    /\ pxiPc = "none"

\* None of the objects beside the equation system is in the picture.
InitComponentsNone ==
    /\ InitGridNone
    /\ InitSettingsNone
    /\ InitSPINone
    /\ InitIonsNone
    /\ InitBuffersNone
    /\ InitPXiNone

\* No term is at work.
InitStencilNone ==
    /\ tgrid = [nr |-> 1, np1 |-> 1, np2 |-> 1]
    /\ termKind = "none"
    /\ coefSeed = 0
    /\ interp = "default"
    /\ pastEnd = [F |-> 0, d |-> 1]
    /\ derivIds = << >>
    /\ derivNMultiples = << >>
    /\ jArgs = NoPair
    /\ xvec = << >>
    /\ tvec = << >>
    /\ mat = << >>
    /\ calls = << >>
    /\ pcT = "none"
    /\ lp = NoLoop

\* BlockMatrix::BlockMatrix(): no sub-equation, nothing allocated.
InitBM ==
    /\ subeqs = << >>
    /\ next_subindex = 0
    /\ blockn = 0
    /\ rowOffset = 0
    /\ colOffset = 0
    /\ matM = 0
    /\ allocated = FALSE
    /\ nnzl = << >>
    /\ bmAlloc = "none"
    /\ bmOp = "new"
    /\ bmArgs = NoPair
    /\ bmRet = -1
    /\ bmErr = "none"
    /\ sel = NoPair
    /\ written = NoPair
    /\ touched = NoPair

\* std::vector::at: is 'k' the (0-based) index of a created sub-equation?
ValidBlock(k) == k >= 0 /\ k < Len(subeqs)

\* subeqs.at(k)
SubEqAt(k) == subeqs[k + 1]

\* n_0 + ... + n_{k-1} for the sizes of a list of sub-equations
RECURSIVE SumSizes(_, _)
SumSizes(s, k) == IF k = 0 THEN 0 ELSE SumSizes(s, k - 1) + s[k].n

\* The struct _subeq that CreateSubEquation pushes.
NewSubEqBad(n, nnz) == [n |-> n, nnz |-> nnz, offset |-> Len(subeqs)]
NewSubEq(n, nnz) == [n |-> n, nnz |-> nnz, offset |-> next_subindex]

\* this->next_subindex += n
AdvanceSubindexBad(n) == next_subindex + 1
AdvanceSubindex(n) == next_subindex + n

\* BlockMatrix::CreateSubEquation(n, nnz)
CreateSubEquation(n, nnz) ==
    /\ Len(subeqs) < MaxSubEq
    /\ subeqs' = Append(subeqs, NewSubEq(n, nnz))
    /\ next_subindex' = AdvanceSubindex(n)
    /\ bmRet' = Len(subeqs')  - 1
    /\ bmOp' = "CreateSubEquation"
    /\ touched' = NoPair
    /\ bmErr' = "none"
    /\ written' = NoPair
    /\ bmAlloc' = "none"
    /\ bmArgs' = NoPair
    /\ UNCHANGED <<blockn, rowOffset, colOffset, matM, allocated, nnzl, sel>>

\* The array 'nnz' that ConstructSystem fills: row offset+i of every
\* sub-equation gets that sub-equation's budget.
NnzArray ==
    [row \in 1..next_subindex |->
        LET k == CHOOSE k \in 1..Len(subeqs) :
                    /\ subeqs[k].offset < row
                    /\ row <= subeqs[k].offset + subeqs[k].n
        IN subeqs[k].nnz]

\* Matrix::Construct(m, n, nnz, nnzl): allocates the backing sparse matrix.
Construct(m, nz) ==
    /\ matM' = m
    /\ nnzl' = nz
    /\ allocated' = TRUE
    /\ bmAlloc' = IF allocated THEN "again" ELSE "first"

\* The size ConstructSystem computes for the matrix.
SystemSizeBad == Len(subeqs)
SystemSize == next_subindex

\* BlockMatrix::ConstructSystem(): no check of its own precedes Construct.
ConstructSystem ==
    /\ Construct(SystemSize, NnzArray)
    /\ bmOp' = "ConstructSystem"
    /\ touched' = NoPair
    /\ bmErr' = "none"
    /\ bmRet' = -1
    /\ bmArgs' = NoPair
    /\ written' = NoPair
    /\ UNCHANGED <<subeqs, next_subindex, blockn, rowOffset, colOffset, sel>>

\* What GetOffset returns for a created sub-equation.
OffsetOf(k) == SubEqAt(k).offset

\* BlockMatrix::GetOffset(subeq): std::out_of_range from vector::at.
GetOffset(k) ==
    /\ bmOp' = "GetOffset"
    /\ touched' = NoPair
    /\ IF ValidBlock(k)
         THEN bmRet' = OffsetOf(k) /\ bmErr' = "none"
         ELSE bmRet' = -1 /\ bmErr' = "out_of_range"
    /\ written' = NoPair
    /\ bmAlloc' = "none"
    /\ bmArgs' = <<k, -1>>
    /\ UNCHANGED <<subeqs, next_subindex, blockn, rowOffset, colOffset, matM,
                   allocated, nnzl, sel>>

\* Matrix::SetOffset(r, c)
SetOffset(r, c) ==
    /\ rowOffset' = r
    /\ colOffset' = c

\* The offsets SelectSubEquation hands to SetOffset.
SelectedOffsetsBad(r, c) == <<SubEqAt(c).offset, SubEqAt(r).offset>>
SelectedOffsets(r, c) == <<SubEqAt(r).offset, SubEqAt(c).offset>>

\* rowOffset, colOffset and blockn after a SelectSubEquation in which an
\* at() call threw.
AfterFailedSelectBad(r, c) ==
    <<IF ValidBlock(r) THEN SubEqAt(r).offset ELSE rowOffset, colOffset, blockn>>
AfterFailedSelect(r, c) == <<rowOffset, colOffset, blockn>>

\* BlockMatrix::SelectSubEquation(subeq1, subeq2): both at() calls are
\* evaluated before SetOffset runs, so an invalid index changes nothing.
SelectSubEquation(r, c) ==
    /\ bmOp' = "SelectSubEquation"
    /\ touched' = NoPair
    /\ IF ValidBlock(r) /\ ValidBlock(c)
         THEN /\ SetOffset(SelectedOffsets(r, c)[1], SelectedOffsets(r, c)[2])
              /\ blockn' = SubEqAt(r).n
              /\ sel' = <<r, c>>
              /\ bmErr' = "none"
         ELSE /\ rowOffset' = AfterFailedSelect(r, c)[1]
              /\ colOffset' = AfterFailedSelect(r, c)[2]
              /\ blockn' = AfterFailedSelect(r, c)[3]
              /\ UNCHANGED sel
              /\ bmErr' = "out_of_range"
    /\ bmRet' = -1
    /\ written' = NoPair
    /\ bmAlloc' = "none"
    /\ bmArgs' = <<r, c>>
    /\ UNCHANGED <<subeqs, next_subindex, matM, allocated, nnzl>>

\* A direct Matrix::SetOffset call (as PXiExternalKineticKinetic makes):
\* it replaces whatever block was selected.
CallSetOffset(r, c) ==
    /\ SetOffset(r, c)
    /\ sel' = NoPair
    /\ bmOp' = "SetOffset"
    /\ touched' = NoPair
    /\ bmErr' = "none"
    /\ bmRet' = -1
    /\ written' = NoPair
    /\ bmAlloc' = "none"
    /\ bmArgs' = NoPair
    /\ UNCHANGED <<subeqs, next_subindex, blockn, matM, allocated, nnzl>>

\* Matrix::SetElement(i, j, v): block-local (i, j) is moved by the implicit
\* offsets; writing needs a constructed matrix and an index inside it.
SetElement(i, j) ==
    /\ bmOp' = "SetElement"
    /\ touched' = NoPair
    /\ bmArgs' = <<i, j>>
    /\ IF ~allocated
         THEN bmErr' = "NotConstructed" /\ written' = NoPair
         ELSE IF rowOffset + i >= matM \/ colOffset + j >= matM
                THEN bmErr' = "range" /\ written' = NoPair
                ELSE bmErr' = "none" /\ written' = <<rowOffset + i, colOffset + j>>
    /\ bmRet' = -1
    /\ bmAlloc' = "none"
    /\ UNCHANGED <<subeqs, next_subindex, blockn, rowOffset, colOffset, matM,
                   allocated, nnzl, sel>>

\* BlockMatrix::ZeroEquation(subeq): the at() calls are evaluated before
\* anything is done to the matrix; rows and columns offset..offset+n-1 are
\* then zeroed, which needs a constructed matrix that contains them.
ZeroEquation(k) ==
    /\ bmOp' = "ZeroEquation"
    /\ bmArgs' = <<k, -1>>
    /\ IF ~ValidBlock(k)
         THEN bmErr' = "out_of_range" /\ touched' = NoPair
         ELSE IF ~allocated
                THEN bmErr' = "NotConstructed" /\ touched' = NoPair
                ELSE IF SubEqAt(k).offset + SubEqAt(k).n > matM
                       THEN bmErr' = "range" /\ touched' = NoPair
                       ELSE /\ bmErr' = "none"
                            /\ touched' = <<SubEqAt(k).offset, SubEqAt(k).n>>
    /\ bmRet' = -1
    /\ written' = NoPair
    /\ bmAlloc' = "none"
    /\ UNCHANGED <<subeqs, next_subindex, blockn, rowOffset, colOffset, matM,
                   allocated, nnzl, sel>>

\* BlockMatrix::IMinusDtA(dt), on a constructed matrix: works on the
\* blockn rows from rowOffset on; no field of the BlockMatrix is assigned.
IMinusDtA(dt) ==
    /\ allocated
    /\ bmOp' = "IMinusDtA"
    /\ bmArgs' = <<dt, -1>>
    /\ IF blockn > 0 /\ (rowOffset + blockn > matM \/ colOffset + blockn > matM)
         THEN bmErr' = "range" /\ touched' = NoPair
         ELSE bmErr' = "none" /\ touched' = <<rowOffset, blockn>>
    /\ bmRet' = -1
    /\ written' = NoPair
    /\ bmAlloc' = "none"
    /\ UNCHANGED <<subeqs, next_subindex, blockn, rowOffset, colOffset, matM,
                   allocated, nnzl, sel>>

BlockIndices == 0..MaxSubEq

\* The time steps IMinusDtA is called with.
DtValues == {1, 2}
LocalIndices == 0..1

NextBM ==
    \/ (\E n \in SubEqSizes, nnz \in NnzValues : CreateSubEquation(n, nnz))
          /\ UNCHANGED besideBM
    \/ ConstructSystem /\ UNCHANGED besideBM
    \/ (\E k \in BlockIndices : GetOffset(k)) /\ UNCHANGED besideBM
    \/ (\E r \in BlockIndices, c \in BlockIndices : SelectSubEquation(r, c))
          /\ UNCHANGED besideBM
    \/ (\E r \in 0..1 : CallSetOffset(r, 0)) /\ UNCHANGED besideBM
    \/ (\E i \in LocalIndices, j \in LocalIndices : SetElement(i, j))
          /\ UNCHANGED besideBM

\* The Solver and the unknowns are not touched by BlockMatrix calls.
Unknowns == 0..(NumUnknowns - 1)
ZeroVec == [i \in 1..NElem |-> 0]

InitSolverIdle ==
    /\ kinds = [u \in Unknowns |-> "nontrivial"]
    /\ coupling = "diag"
    /\ hasHottail = FALSE
    /\ hasRunaway = FALSE
    /\ hasSPI = FALSE
    /\ data = [u \in Unknowns |-> ZeroVec]
    /\ hasChanged = [u \in Unknowns |-> FALSE]
    /\ src = [u \in Unknowns |-> << >>]
    /\ data0 = data
    /\ pcS = "idle"
    /\ pos = 0
    /\ log = << >>
    /\ jmat = << >>
    /\ rhs = << >>

\* A freshly constructed BlockMatrix next to an idle Solver.
InitBlockMatrix ==
    /\ InitComponentsNone
    /\ InitBM
    /\ InitSolverIdle
    /\ InitTermNone
    /\ InitStencilNone
    /\ InitQuantityNone

SpecBM == InitBlockMatrix /\ [][NextBM]_vars

(***************************************************************************)
(* Claims about BlockMatrix.                                               *)
(***************************************************************************)
\* C1: on a BlockMatrix the k-th CreateSubEquation call returns k, the
\* offset of sub-equation k is the sum of the sizes created before it, and
\* ConstructSystem builds a square system whose dimension is the sum of all
\* sizes created so far.
C1_ContiguousLayout ==
    /\ \A k \in 1..Len(subeqs) : subeqs[k].offset = SumSizes(subeqs, k - 1)
    /\ bmOp = "CreateSubEquation" => bmRet = Len(subeqs) - 1
    /\ bmOp = "GetOffset" /\ bmErr = "none" =>
          \E k \in 1..Len(subeqs) : bmRet = SumSizes(subeqs, k - 1)
    /\ bmOp = "ConstructSystem" =>
          /\ matM = SumSizes(subeqs, Len(subeqs))
          /\ Len(nnzl) = matM

\* Sub-equations of sizes 2, 5, 1 were created and the system constructed:
\* dimension 8, offset of block 2 is 7.
C1_Witness ==
    /\ bmOp = "ConstructSystem"
    /\ Len(subeqs) = 3
    /\ <<subeqs[1].n, subeqs[2].n, subeqs[3].n>> = <<2, 5, 1>>
    /\ matM = 8
    /\ subeqs[3].offset = 7

\* C2: a SetElement(i, j) that follows SelectSubEquation(r, c), with no
\* SetOffset call in between, addresses the global entry
\* (GetOffset(r) + i, GetOffset(c) + j); local (0, 0) is the block's corner.
C2_BlockLocalWrite ==
    (bmOp = "SetElement" /\ bmErr = "none" /\ sel # NoPair) =>
        written = <<SumSizes(subeqs, sel[1]) + bmArgs[1],
                    SumSizes(subeqs, sel[2]) + bmArgs[2]>>

\* A write into an off-diagonal block whose row and column offsets differ.
C2_Witness ==
    /\ bmOp = "SetElement" /\ bmErr = "none"
    /\ sel = <<2, 1>>
    /\ bmArgs = <<1, 0>>
    /\ <<subeqs[1].n, subeqs[2].n, subeqs[3].n>> = <<2, 5, 2>>
    /\ written = <<8, 2>>

Kinds == {"nontrivial", "predetermined"}

RECURSIVE Ascending(_)
Ascending(S) ==
    IF S = {} THEN << >>
    ELSE LET m == CHOOSE x \in S : \A y \in S : x <= y
         IN <<m>> \o Ascending(S \ {m})

\* nontrivial_unknowns, as Initialize copies it: the ids in ascending order.
NontrivialSeq == Ascending({u \in Unknowns : kinds[u] = "nontrivial"})

\* eqn->IsPredetermined()
IsPredetermined(u) == kinds[u] = "predetermined"

\* The unknowns the operators of the equation of 'u' are applied to
\* (the keys of eqn->GetOperators(), a std::map: iterated in ascending order).
OpsOf(u) == IF coupling = "diag" THEN {u} ELSE Unknowns

RECURSIVE PairsFrom(_)
PairsFrom(us) ==
    IF us = << >> THEN << >>
    ELSE LET vs == Ascending(OpsOf(Head(us)))
         IN [k \in 1..Len(vs) |-> <<Head(us), vs[k]>>] \o PairsFrom(Tail(us))

\* The (row unknown, operator) pairs in the order of the two nested loops
\* "for uqnId : nontrivial_unknowns / for it : eqn->GetOperators()".
OpPairs == PairsFrom(NontrivialSeq)

\* Data a predetermined unknown's source can give: all of length NElem;
\* FlatVec and SkewVec differ in two elements and have the same sum.
FlatVec == [i \in 1..NElem |-> 1]
SkewVec == [i \in 1..NElem |-> IF i = 1 THEN 0 ELSE IF i = 2 THEN 2 ELSE 1]
SourceVectors == {FlatVec, SkewVec}

(***************************************************************************)
(* QuantityData::Store(const real_t *vec, offset, mayBeConstant)           *)
(***************************************************************************)
RECURSIVE SumDiff(_, _, _)
SumDiff(cur, vec, n) ==
    IF n = 0 THEN 0 ELSE SumDiff(cur, vec, n - 1) + (cur[n] - vec[n])

\* "Equal?": the sum s of the differences data[i] - vec[i] is zero.
SeemsConstant(cur, vec) == SumDiff(cur, vec, Len(cur)) = 0

\* What Store leaves in 'data' and 'hasChanged'.
Store(cur, vec, mayBeConstant) ==
    IF mayBeConstant /\ SeemsConstant(cur, vec)
      THEN [data |-> cur, hasChanged |-> FALSE]
      ELSE [data |-> vec, hasChanged |-> TRUE]

(***************************************************************************)
(* Solver::RebuildTerms(t, dt), one action per statement group.            *)
(***************************************************************************)
Ev(name, u, v) == [ev |-> name, u |-> u, v |-> v]

\* The order of the statement groups of RebuildTerms.
RebuildPhasesBad == <<"cqh", "refluid", "spi", "pre", "ops", "done">>
RebuildPhases == <<"cqh", "refluid", "pre", "spi", "ops", "done">>

NextPhase(p) ==
    LET k == CHOOSE k \in 1..Len(RebuildPhases) : RebuildPhases[k] = p
    IN RebuildPhases[k + 1]

\* Where control goes when a rebuild throws at loop index 'k': no handler
\* in RebuildTerms, the exception leaves the routine.
OnThrowBad(k) == [pc |-> "ops", pos |-> k]
OnThrow(k) == [pc |-> "thrown", pos |-> k]

\* A caller (the time stepper) calls RebuildTerms.
StartRebuildTerms ==
    /\ pcS \in {"idle", "done", "thrown"}
    /\ pcS' = RebuildPhases[1]
    /\ pos' = 0
    /\ log' = << >>
    /\ data0' = data
    /\ src' = [u \in Unknowns |-> << >>]
    /\ UNCHANGED <<cfgVars, data, hasChanged, jmat, rhs>>

\* cqh_hottail->Rebuild(); cqh_runaway->Rebuild();
RebuildCollisionHandlers ==
    /\ pcS = "cqh"
    /\ log' = log \o (IF hasHottail THEN <<Ev("cqh_hottail", -1, -1)>> ELSE << >>)
                  \o (IF hasRunaway THEN <<Ev("cqh_runaway", -1, -1)>> ELSE << >>)
    /\ pcS' = NextPhase("cqh")
    /\ UNCHANGED <<cfgVars, data, hasChanged, src, data0, pos, jmat, rhs>>

\* REFluid->Rebuild();
RebuildREFluid ==
    /\ pcS = "refluid"
    /\ log' = Append(log, Ev("REFluid", -1, -1))
    /\ pcS' = NextPhase("refluid")
    /\ pos' = 0
    /\ UNCHANGED <<cfgVars, data, hasChanged, src, data0, jmat, rhs>>

\* One iteration of "for (i = 0; i < N; i++)": a predetermined unknown is
\* rebuilt and stored from pp->GetData() with mayBeConstant = true.
UpdatePredetermined ==
    /\ pcS = "pre"
    /\ pos < NumUnknowns
    /\ IF IsPredetermined(pos)
         THEN \E vec \in SourceVectors, throws \in BOOLEAN :
                IF throws
                  THEN /\ pcS' = OnThrow(pos).pc
                       /\ pos' = OnThrow(pos).pos
                       /\ log' = Append(log, Ev("throw", pos, pos))
                       /\ UNCHANGED <<data, hasChanged, src>>
                  ELSE /\ log' = log \o <<Ev("RebuildEquations", pos, pos),
                                          Ev("Store", pos, pos)>>
                       /\ src' = [src EXCEPT ![pos] = vec]
                       /\ data' = [data EXCEPT ![pos] = Store(data[pos], vec, TRUE).data]
                       /\ hasChanged' = [hasChanged EXCEPT
                                           ![pos] = Store(data[pos], vec, TRUE).hasChanged]
                       /\ pos' = pos + 1
                       /\ pcS' = pcS
         ELSE /\ pos' = pos + 1
              /\ UNCHANGED <<data, hasChanged, src, log, pcS>>
    /\ UNCHANGED <<cfgVars, data0, jmat, rhs>>

\* The loop over the unknowns is over.
PredeterminedDone ==
    /\ pcS = "pre"
    /\ pos = NumUnknowns
    /\ pcS' = NextPhase("pre")
    /\ pos' = 0
    /\ UNCHANGED <<cfgVars, data, hasChanged, src, data0, log, jmat, rhs>>

\* if (SPI != nullptr) SPI->Rebuild(dt);
RebuildSPI ==
    /\ pcS = "spi"
    /\ log' = log \o (IF hasSPI THEN <<Ev("SPI", -1, -1)>> ELSE << >>)
    /\ pcS' = NextPhase("spi")
    /\ pos' = 0
    /\ UNCHANGED <<cfgVars, data, hasChanged, src, data0, jmat, rhs>>

\* it->second->RebuildTerms(t, dt, unknowns) for the next operator of the
\* next non-trivial unknown; a term of the operator may throw.
RebuildOperator ==
    /\ pcS = "ops"
    /\ pos < Len(OpPairs)
    /\ \E throws \in BOOLEAN :
         IF throws
           THEN /\ pcS' = OnThrow(pos).pc
                /\ pos' = OnThrow(pos).pos
                /\ log' = Append(log, Ev("throw", OpPairs[pos + 1][1], OpPairs[pos + 1][2]))
           ELSE /\ pcS' = pcS
                /\ pos' = pos + 1
                /\ log' = Append(log, Ev("RebuildTerms", OpPairs[pos + 1][1],
                                         OpPairs[pos + 1][2]))
    /\ UNCHANGED <<cfgVars, data, hasChanged, src, data0, jmat, rhs>>

\* RebuildTerms returns.
RebuildTermsReturns ==
    /\ pcS = "ops"
    /\ pos = Len(OpPairs)
    /\ pcS' = NextPhase("ops")
    /\ UNCHANGED <<cfgVars, data, hasChanged, src, data0, pos, log, jmat, rhs>>

\* An equation system: at least one non-trivial unknown.
InitRebuild ==
    /\ InitComponentsNone
    /\ InitBM
    /\ InitTermNone
    /\ InitStencilNone
    /\ InitQuantityNone
    /\ kinds \in [Unknowns -> Kinds]
    /\ \E u \in Unknowns : kinds[u] = "nontrivial"
    /\ coupling \in {"diag", "dense"}
    /\ hasHottail \in BOOLEAN
    /\ hasRunaway \in BOOLEAN
    /\ hasSPI \in BOOLEAN
    /\ data = [u \in Unknowns |-> ZeroVec]
    /\ hasChanged = [u \in Unknowns |-> FALSE]
    /\ src = [u \in Unknowns |-> << >>]
    /\ data0 = data
    /\ pcS = "idle"
    /\ pos = 0
    /\ log = << >>
    /\ jmat = << >>
    /\ rhs = << >>

NextRebuild ==
    \/ StartRebuildTerms /\ UNCHANGED <<bmVars, besideSolver>>
    \/ RebuildCollisionHandlers /\ UNCHANGED <<bmVars, besideSolver>>
    \/ RebuildREFluid /\ UNCHANGED <<bmVars, besideSolver>>
    \/ UpdatePredetermined /\ UNCHANGED <<bmVars, besideSolver>>
    \/ PredeterminedDone /\ UNCHANGED <<bmVars, besideSolver>>
    \/ RebuildSPI /\ UNCHANGED <<bmVars, besideSolver>>
    \/ RebuildOperator /\ UNCHANGED <<bmVars, besideSolver>>
    \/ RebuildTermsReturns /\ UNCHANGED <<bmVars, besideSolver>>

SpecRebuild == InitRebuild /\ [][NextRebuild]_vars

(***************************************************************************)
(* Claims about Solver::RebuildTerms.                                      *)
(***************************************************************************)
LogHas(name, u, v) == \E i \in 1..Len(log) : log[i] = Ev(name, u, v)

\* The step of the contract an entry of the log belongs to: (1) handlers
\* the coefficients depend on, (2) predetermined unknowns, (3) the SPI
\* handler, (4) operators. A throw belongs to the step that threw.
StepOf(e) ==
    CASE e.ev \in {"cqh_hottail", "cqh_runaway", "REFluid"} -> 1
      [] e.ev \in {"RebuildEquations", "Store"} -> 2
      [] e.ev = "SPI" -> 3
      [] e.ev = "RebuildTerms" -> 4
      [] e.ev = "throw" -> IF IsPredetermined(e.u) THEN 2 ELSE 4

\* C3: in every RebuildTerms call the handlers of step (1) are rebuilt
\* first, then every predetermined unknown is updated, then the SPI handler
\* is rebuilt, then the operators of the non-trivial unknowns are rebuilt;
\* no operator is rebuilt before steps (1)-(3) are complete, and a call
\* that returns has rebuilt every operator of every non-trivial unknown.
C3_RebuildOrder ==
    /\ \A i \in 1..Len(log), j \in 1..Len(log) :
          i < j => StepOf(log[i]) <= StepOf(log[j])
    /\ (\E i \in 1..Len(log) : StepOf(log[i]) = 4) =>
          /\ LogHas("REFluid", -1, -1)
          /\ hasHottail => LogHas("cqh_hottail", -1, -1)
          /\ hasRunaway => LogHas("cqh_runaway", -1, -1)
          /\ \A u \in Unknowns : IsPredetermined(u) => LogHas("Store", u, u)
          /\ hasSPI => LogHas("SPI", -1, -1)
    /\ pcS = "done" =>
          \A k \in 1..Len(OpPairs) : LogHas("RebuildTerms", OpPairs[k][1], OpPairs[k][2])

\* A call with every handler present and a predetermined unknown returned.
C3_Witness ==
    /\ pcS = "done"
    /\ hasHottail /\ hasRunaway /\ hasSPI
    /\ \E u \in Unknowns : IsPredetermined(u) /\ LogHas("Store", u, u)
    /\ Len(OpPairs) >= 2
    /\ log[Len(log)].ev = "RebuildTerms"

\* C4 as stated: while the operators are rebuilt every predetermined
\* unknown holds exactly what its data source gave in this call, and the
\* SPI handler was rebuilt after these unknowns were stored.
C4_AuxiliaryCurrent ==
    pcS = "ops" =>
        /\ \A u \in Unknowns : IsPredetermined(u) => data[u] = src[u]
        /\ \A i \in 1..Len(log), j \in 1..Len(log) :
              (log[i].ev = "SPI" /\ log[j].ev = "Store") => j < i

\* C9 as stated: when a rebuild has thrown, the data of every unknown,
\* predetermined ones included, are what they were before the call.
C9_NoPartialCommit ==
    pcS = "thrown" => data = data0

\* C9 amended: a throw ends the call at once (it is the last thing the call
\* does, nothing is rebuilt twice, no retry); the data of the unknowns that
\* are not predetermined are as before the call, and a predetermined
\* unknown holds its old data or what Store took from its source: values
\* stored before the throw are not rolled back.
C9_ThrowPropagates ==
    /\ \A i \in 1..Len(log) :
          log[i].ev = "throw" => (i = Len(log) /\ pcS = "thrown")
    /\ \A i \in 1..Len(log), j \in 1..Len(log) : i # j => log[i] # log[j]
    /\ pcS = "thrown" =>
          /\ log # << >> /\ log[Len(log)].ev = "throw"
          /\ \A u \in Unknowns :
                IF IsPredetermined(u)
                  THEN data[u] = data0[u]
                         \/ (LogHas("Store", u, u) /\ data[u] = src[u])
                  ELSE data[u] = data0[u]

\* An operator threw after a predetermined unknown had been given new data.
C9_Witness ==
    /\ pcS = "thrown"
    /\ StepOf(log[Len(log)]) = 4
    /\ \E u \in Unknowns : IsPredetermined(u) /\ data[u] # data0[u]

(***************************************************************************)
(* The matrix handed to BuildMatrix / BuildJacobian: one sub-equation of   *)
(* NElem rows per non-trivial unknown, created in the order of             *)
(* nontrivial_unknowns (BuildVector reads block i for the i-th of them).   *)
(***************************************************************************)
\* unknownToMatrixMapping[u]
Utmm(u) == (CHOOSE k \in 1..Len(NontrivialSeq) : NontrivialSeq[k] = u) - 1

\* utmm.find(v) != utmm.end()
InMatrix(v) == kinds[v] = "nontrivial"

MatrixSize == NElem * Len(NontrivialSeq)
Rows == 0..(MatrixSize - 1)
Cells == Rows \X Rows

\* Contents left in the matrix and the right-hand side by an earlier use.
JunkValues == {0, 7}

InitAssembly ==
    /\ InitComponentsNone
    /\ InitTermNone
    /\ InitStencilNone
    /\ InitQuantityNone
    /\ kinds \in [Unknowns -> Kinds]
    /\ \E u \in Unknowns : kinds[u] = "nontrivial"
    /\ coupling \in {"diag", "dense"}
    /\ hasHottail = FALSE
    /\ hasRunaway = FALSE
    /\ hasSPI = FALSE
    /\ data \in [Unknowns -> SourceVectors]
    /\ \A u \in Unknowns : kinds[u] = "nontrivial" => data[u] = FlatVec
    /\ hasChanged = [u \in Unknowns |-> TRUE]
    /\ src = [u \in Unknowns |-> << >>]
    /\ data0 = data
    /\ pcS = "idle"
    /\ pos = 0
    /\ log = << >>
    /\ \E fill \in JunkValues :
          /\ jmat = [rc \in Cells |-> fill]
          /\ rhs = [r \in Rows |-> fill]
    \* the BlockMatrix after initialize_internal
    /\ subeqs = [k \in 1..Len(NontrivialSeq) |->
                    [n |-> NElem, nnz |-> 3, offset |-> (k - 1) * NElem]]
    /\ next_subindex = MatrixSize
    /\ blockn = 0
    /\ rowOffset = 0
    /\ colOffset = 0
    /\ matM = MatrixSize
    /\ allocated = TRUE
    /\ nnzl = [r \in 1..MatrixSize |-> 3]
    /\ bmOp = "ConstructSystem"
    /\ bmArgs = NoPair
    /\ bmRet = -1
    /\ bmErr = "none"
    /\ bmAlloc = "first"
    /\ sel = NoPair
    /\ written = NoPair
    /\ touched = NoPair

(***************************************************************************)
(* Operator (its source is not part of the model's sources): the operator  *)
(* of the equation of u applied to v is the diagonal operator with         *)
(* coefficient OpWeight(u, v); its boundary condition, when it has one,    *)
(* sets the last row of its block.                                         *)
(***************************************************************************)
OpWeight(u, v) == 1 + u * NumUnknowns + v
HasBC(u, v) == u = v
BCValue(u, v) == 100 + OpWeight(u, v)
LocalRows == 0..(NElem - 1)

\* Operator::SetMatrixElements(mat, rhs): adds through SetElement, so
\* relative to the offsets (ro, co) selected in the matrix.
OpSetMatrixElements(m, ro, co, w) ==
    [rc \in Cells |->
        IF \E i \in LocalRows : rc = <<ro + i, co + i>> THEN m[rc] + w ELSE m[rc]]

\* Operator::SetVectorElements(vec, x) with vec = S + offs: adds w*x.
OpSetVectorElements(S, offs, w, x) ==
    [r \in Rows |->
        IF r - offs \in LocalRows THEN S[r] + w * x[r - offs + 1] ELSE S[r]]

\* Operator::SetJacobianBlock(uqtyId, derivId, jac, x): the operator's own
\* matrix when differentiated with respect to the unknown it is applied to.
OpSetJacobianBlock(m, ro, co, u, v, d) ==
    IF d = v THEN OpSetMatrixElements(m, ro, co, OpWeight(u, v)) ELSE m

\* Operator::SetJacobianBlockBC(uqtyId, derivId, jac, x): the boundary
\* condition overwrites (INSERT_VALUES) the boundary row of the block.
OpSetJacobianBlockBC(m, ro, co, u, v, d) ==
    IF d = v /\ HasBC(u, v)
      THEN [m EXCEPT ![<<ro + NElem - 1, co + NElem - 1>>] = BCValue(u, v)]
      ELSE m

(***************************************************************************)
(* Solver::BuildMatrix(t, dt, mat, S)                                      *)
(***************************************************************************)
Call(name, u, v, d, offs, x) ==
    [ev |-> name, u |-> u, v |-> v, d |-> d, offs |-> offs,
     row |-> rowOffset', col |-> colOffset', x |-> x]

\* vecoffs = mat->GetOffset(utmm[uqnId])
VecOffsBad(u) == Utmm(u)
VecOffs(u) == OffsetOf(Utmm(u))

\* mat->Zero(); S[i] = 0 for i < matrix_size
BuildMatrixZero ==
    /\ pcS \in {"idle", "done"}
    /\ jmat' = [rc \in Cells |-> 0]
    /\ rhs' = [r \in Rows |-> 0]
    /\ log' = << >>
    /\ pos' = 0
    /\ pcS' = "bm_ops"
    /\ UNCHANGED <<cfgVars, data, hasChanged, src, data0, bmVars>>

\* One iteration of the inner loop, operator applied to a non-trivial
\* unknown: SelectSubEquation, then SetMatrixElements(mat, S + vecoffs).
BuildMatrixImplicit ==
    /\ pcS = "bm_ops"
    /\ pos < Len(OpPairs)
    /\ LET u == OpPairs[pos + 1][1]
           v == OpPairs[pos + 1][2]
       IN /\ InMatrix(v)
          /\ SelectSubEquation(Utmm(u), Utmm(v))
          /\ jmat' = OpSetMatrixElements(jmat, rowOffset', colOffset', OpWeight(u, v))
          /\ log' = Append(log, Call("SetMatrixElements", u, v, -1, VecOffs(u), << >>))
    /\ pos' = pos + 1
    /\ UNCHANGED <<cfgVars, data, hasChanged, src, data0, pcS, rhs>>

\* One iteration of the inner loop, operator applied to a trivial unknown:
\* SetVectorElements(S + vecoffs, unknowns->GetUnknownData(v)).
BuildMatrixExplicit ==
    /\ pcS = "bm_ops"
    /\ pos < Len(OpPairs)
    /\ LET u == OpPairs[pos + 1][1]
           v == OpPairs[pos + 1][2]
       IN /\ ~InMatrix(v)
          /\ UNCHANGED bmVars
          /\ rhs' = OpSetVectorElements(rhs, VecOffs(u), OpWeight(u, v), data[v])
          /\ log' = Append(log, Call("SetVectorElements", u, v, -1, VecOffs(u), data[v]))
    /\ pos' = pos + 1
    /\ UNCHANGED <<cfgVars, data, hasChanged, src, data0, pcS, jmat>>

\* mat->Assemble()
BuildMatrixAssemble ==
    /\ pcS = "bm_ops"
    /\ pos = Len(OpPairs)
    /\ UNCHANGED bmVars
    /\ log' = Append(log, Call("Assemble", -1, -1, -1, -1, << >>))
    /\ pcS' = "done"
    /\ UNCHANGED <<cfgVars, data, hasChanged, src, data0, pos, jmat, rhs>>

NextMatrix ==
    \/ BuildMatrixZero /\ UNCHANGED besideSolver
    \/ BuildMatrixImplicit /\ UNCHANGED besideSolver
    \/ BuildMatrixExplicit /\ UNCHANGED besideSolver
    \/ BuildMatrixAssemble /\ UNCHANGED besideSolver

SpecMatrix == InitAssembly /\ [][NextMatrix]_vars

RECURSIVE SetSum(_, _)
SetSum(S, f) ==
    IF S = {} THEN 0
    ELSE LET x == CHOOSE y \in S : TRUE IN f[x] + SetSum(S \ {x}, f)

\* First row of the block of the non-trivial unknown u, counted from the
\* configuration alone.
BlockStart(u) == NElem * Cardinality({w \in Unknowns : InMatrix(w) /\ w < u})

\* The matrix and right-hand side the operators define.
ExpectedMatrix ==
    [rc \in Cells |->
        SetSum({p \in {<<u, v>> \in Unknowns \X Unknowns :
                          InMatrix(u) /\ InMatrix(v) /\ v \in OpsOf(u)} :
                   \E i \in LocalRows :
                       rc = <<BlockStart(p[1]) + i, BlockStart(p[2]) + i>>},
               [p \in Unknowns \X Unknowns |-> OpWeight(p[1], p[2])])]

ExpectedRhs ==
    [r \in Rows |->
        LET u == CHOOSE w \in Unknowns : InMatrix(w) /\ r - BlockStart(w) \in LocalRows
        IN SetSum({v \in OpsOf(u) : ~InMatrix(v)},
                  [v \in Unknowns |-> OpWeight(u, v) * data[v][r - BlockStart(u) + 1]])]

\* C5: BuildMatrix zeroes the matrix and the vector; an operator of the
\* equation of u applied to a non-trivial v sets matrix elements with block
\* (u, v) selected and reads no data of v; applied to a trivial v it leaves
\* the matrix alone and adds its value on the current data of v to the slice
\* of the right-hand side starting at the offset of the block of u.
C5_BuildMatrixDispatch ==
    pcS \in {"bm_ops", "done"} =>
        /\ \A k \in 1..pos :
              LET u == OpPairs[k][1]
                  v == OpPairs[k][2]
                  e == log[k]
              IN /\ e.u = u /\ e.v = v
                 /\ e.offs = BlockStart(u)
                 /\ IF InMatrix(v)
                      THEN /\ e.ev = "SetMatrixElements"
                           /\ e.row = BlockStart(u) /\ e.col = BlockStart(v)
                           /\ e.x = << >>
                      ELSE /\ e.ev = "SetVectorElements"
                           /\ e.x = data[v]
        /\ pcS = "done" => /\ pos = Len(OpPairs)
                           /\ jmat = ExpectedMatrix
                           /\ rhs = ExpectedRhs

C5_Witness ==
    /\ pcS = "done"
    /\ \E k \in 1..Len(log) : log[k].ev = "SetMatrixElements" /\ log[k].row > 0
    /\ \E k \in 1..Len(log) :
          /\ log[k].ev = "SetVectorElements"
          /\ log[k].offs > 0
          /\ log[k].x = SkewVec
    /\ \E r \in Rows : rhs[r] # 0 /\ rhs[r] # 7

(***************************************************************************)
(* Solver::BuildJacobian(t, dt, jac)                                       *)
(***************************************************************************)
RECURSIVE WithDerivs(_, _)
WithDerivs(p, ds) ==
    IF ds = << >> THEN << >>
    ELSE << <<p[1], p[2], Head(ds)>> >> \o WithDerivs(p, Tail(ds))

RECURSIVE TriplesFrom(_)
TriplesFrom(ps) ==
    IF ps = << >> THEN << >>
    ELSE WithDerivs(Head(ps), NontrivialSeq) \o TriplesFrom(Tail(ps))

\* (uqnId, operator's unknown, derivId) in the order of the three nested loops
Triples == TriplesFrom(OpPairs)

\* The passes of BuildJacobian, in program order.
JacobianPassesBad == <<"bj_bc", "bj_partial", "bj_blocks", "bj_assemble", "done">>
JacobianPasses == <<"bj_blocks", "bj_partial", "bj_bc", "bj_assemble", "done">>

NextPass(p) ==
    JacobianPasses[(CHOOSE k \in 1..Len(JacobianPasses) : JacobianPasses[k] = p) + 1]

\* jac->Zero()
BuildJacobianZero ==
    /\ pcS \in {"idle", "done"}
    /\ UNCHANGED bmVars
    /\ jmat' = [rc \in Cells |-> 0]
    /\ log' = <<Call("Zero", -1, -1, -1, -1, << >>)>>
    /\ pos' = 0
    /\ pcS' = JacobianPasses[1]
    /\ UNCHANGED <<cfgVars, data, hasChanged, src, data0, rhs>>

\* First pass, one iteration of the innermost loop:
\* jac->SelectSubEquation(utmm[uqnId], utmm[derivId]);
\* SetJacobianBlock(it->first, derivId, jac, x)
JacobianBlock ==
    /\ pcS = "bj_blocks"
    /\ pos < Len(Triples)
    /\ LET u == Triples[pos + 1][1]
           v == Triples[pos + 1][2]
           d == Triples[pos + 1][3]
       IN /\ SelectSubEquation(Utmm(u), Utmm(d))
          /\ jmat' = OpSetJacobianBlock(jmat, rowOffset', colOffset', u, v, d)
          /\ log' = Append(log, Call("SetJacobianBlock", u, v, d, -1, data[v]))
    /\ pos' = pos + 1
    /\ UNCHANGED <<cfgVars, data, hasChanged, src, data0, pcS, rhs>>

\* End of a pass over the triples.
JacobianPassDone ==
    /\ pcS \in {"bj_blocks", "bj_bc"}
    /\ pos = Len(Triples)
    /\ pcS' = NextPass(pcS)
    /\ pos' = 0
    /\ UNCHANGED <<cfgVars, data, hasChanged, src, data0, log, jmat, rhs, bmVars>>

\* jac->PartialAssemble()
JacobianPartialAssemble ==
    /\ pcS = "bj_partial"
    /\ UNCHANGED bmVars
    /\ log' = Append(log, Call("PartialAssemble", -1, -1, -1, -1, << >>))
    /\ pcS' = NextPass(pcS)
    /\ UNCHANGED <<cfgVars, data, hasChanged, src, data0, pos, jmat, rhs>>

\* Second pass, one iteration of the innermost loop:
\* jac->SelectSubEquation(utmm[uqnId], utmm[derivId]);
\* SetJacobianBlockBC(it->first, derivId, jac, x)
JacobianBlockBC ==
    /\ pcS = "bj_bc"
    /\ pos < Len(Triples)
    /\ LET u == Triples[pos + 1][1]
           v == Triples[pos + 1][2]
           d == Triples[pos + 1][3]
       IN /\ SelectSubEquation(Utmm(u), Utmm(d))
          /\ jmat' = OpSetJacobianBlockBC(jmat, rowOffset', colOffset', u, v, d)
          /\ log' = Append(log, Call("SetJacobianBlockBC", u, v, d, -1, data[v]))
    /\ pos' = pos + 1
    /\ UNCHANGED <<cfgVars, data, hasChanged, src, data0, pcS, rhs>>

\* jac->Assemble()
JacobianAssemble ==
    /\ pcS = "bj_assemble"
    /\ UNCHANGED bmVars
    /\ log' = Append(log, Call("Assemble", -1, -1, -1, -1, << >>))
    /\ pcS' = NextPass(pcS)
    /\ UNCHANGED <<cfgVars, data, hasChanged, src, data0, pos, jmat, rhs>>

NextJacobian ==
    \/ BuildJacobianZero /\ UNCHANGED besideSolver
    \/ JacobianBlock /\ UNCHANGED besideSolver
    \/ JacobianPassDone /\ UNCHANGED besideSolver
    \/ JacobianPartialAssemble /\ UNCHANGED besideSolver
    \/ JacobianBlockBC /\ UNCHANGED besideSolver
    \/ JacobianAssemble /\ UNCHANGED besideSolver

SpecJacobian == InitAssembly /\ [][NextJacobian]_vars

\* Position of a call in the order BuildJacobian is described to have.
CallRank(name) ==
    CASE name = "Zero" -> 0
      [] name = "SetJacobianBlock" -> 1
      [] name = "PartialAssemble" -> 2
      [] name = "SetJacobianBlockBC" -> 3
      [] name = "Assemble" -> 4
      [] OTHER -> 5

CallsOf(name) == {k \in 1..Len(log) : log[k].ev = name}

\* The k-th call of the given name, as an index of the log.
NthCall(name, k) ==
    CHOOSE i \in CallsOf(name) : Cardinality({j \in CallsOf(name) : j < i}) = k - 1

\* C6: BuildJacobian zeroes the matrix, calls SetJacobianBlock for every
\* (unknown, operator, derivative) with the block of (unknown, derivative)
\* selected, partially assembles once, calls SetJacobianBlockBC for the same
\* triples with the same selection, and assembles once; the boundary row of
\* a block then holds the boundary condition's value alone.
C6_JacobianOrder ==
    pcS \in {"bj_blocks", "bj_partial", "bj_bc", "bj_assemble", "done"} =>
        /\ Len(log) > 0 /\ log[1].ev = "Zero"
        /\ \A i, j \in 1..Len(log) :
              i < j => /\ CallRank(log[i].ev) <= CallRank(log[j].ev)
                       /\ log[j].ev # "Zero"
        /\ Cardinality(CallsOf("PartialAssemble")) <= 1
        /\ Cardinality(CallsOf("Assemble")) <= 1
        /\ \A k \in CallsOf("SetJacobianBlock") \cup CallsOf("SetJacobianBlockBC") :
              /\ InMatrix(log[k].u) /\ InMatrix(log[k].d)
              /\ log[k].row = BlockStart(log[k].u)
              /\ log[k].col = BlockStart(log[k].d)
              /\ log[k].x = data[log[k].v]
        /\ pcS = "done" =>
              /\ Cardinality(CallsOf("PartialAssemble")) = 1
              /\ log[Len(log)].ev = "Assemble"
              /\ Cardinality(CallsOf("SetJacobianBlock")) = Len(Triples)
              /\ Cardinality(CallsOf("SetJacobianBlockBC")) = Len(Triples)
              /\ \A k \in 1..Len(Triples) :
                    \A name \in {"SetJacobianBlock", "SetJacobianBlockBC"} :
                        LET e == log[NthCall(name, k)]
                        IN <<e.u, e.v, e.d>> = Triples[k]
              /\ \A u \in Unknowns :
                    (InMatrix(u) /\ u \in OpsOf(u) /\ HasBC(u, u)) =>
                        jmat[<<BlockStart(u) + NElem - 1, BlockStart(u) + NElem - 1>>]
                            = BCValue(u, u)

C6_Witness ==
    /\ pcS = "done"
    /\ coupling = "dense"
    /\ Len(NontrivialSeq) >= 2
    /\ \E k \in CallsOf("SetJacobianBlockBC") : log[k].row > 0 /\ log[k].col = 0
    /\ \E u \in Unknowns :
          /\ InMatrix(u) /\ BlockStart(u) > 0
          /\ jmat[<<BlockStart(u) + NElem - 1, BlockStart(u) + NElem - 1>>] = BCValue(u, u)
          /\ jmat[<<BlockStart(u), BlockStart(u)>>] = OpWeight(u, u)

(***************************************************************************)
(* AdvectionTerm / DiffusionTerm: ownership of the coefficient buffers.    *)
(***************************************************************************)
Unused(h) == {b \in Buffers : h[b].state = "unused"}
CanAllocate == Unused(heap) # {}

\* new real_t[...]: the allocation gets an identity never used before.
FreshBuffer(h) == CHOOSE b \in Unused(h) : \A c \in Unused(h) : b <= c

\* delete [] p
Delete(h, p) ==
    [h EXCEPT ![p] = [state |-> "freed", owner |-> h[p].owner, shape |-> 0,
                      zero |-> FALSE]]

\* DeallocateCoefficients(): deletes whatever the pointers hold unless they
\* are nullptr; the pointers themselves are left as they were.
DeallocateCoefficients(h) == IF coef # 0 THEN Delete(h, coef) ELSE h

\* The delete [] in DeallocateCoefficients is handed freed memory.
DeletesFreed == coef # 0 /\ heap[coef].state = "freed"

\* GridRebuilt: whether the coefficients are allocated anew.
ReallocatesBad == ~coefficientsShared /\ termShape # gridShape
Reallocates == ~coefficientsShared

\* Body of AllocateCoefficients() for cached grid sizes 'shape':
\* deallocate when owned, allocate, ResetCoefficients, mark as owned.
Allocate(shape) ==
    LET h1 == IF ~coefficientsShared THEN DeallocateCoefficients(heap) ELSE heap
        b == FreshBuffer(h1)
    IN /\ heap' = [h1 EXCEPT ![b] = [state |-> "live", owner |-> "term",
                                     shape |-> shape, zero |-> TRUE]]
       /\ coef' = b
       /\ coefficientsShared' = FALSE
       /\ tRealloc' = TRUE

\* Outcome of a call whose delete [] is handed freed memory: the program is
\* aborted by the allocator, or it goes on.
Aborts(op) ==
    /\ DeletesFreed
    /\ life' = "crashed"
    /\ tOp' = op
    /\ tRealloc' = FALSE
    /\ UNCHANGED <<heap, coef, coefficientsShared, termShape, gridShape, tResized>>

\* Another owner (an Operator or another term) allocates coefficient
\* buffers for the current grid; they start zeroed.
ExternalAllocate ==
    /\ life # "crashed"
    /\ CanAllocate
    /\ heap' = [heap EXCEPT ![FreshBuffer(heap)] =
                   [state |-> "live", owner |-> "ext", shape |-> gridShape,
                    zero |-> TRUE]]
    /\ tOp' = "ExternalAllocate"
    /\ tRealloc' = FALSE
    /\ UNCHANGED <<coef, coefficientsShared, termShape, gridShape, life, tResized>>

\* AdvectionTerm(rg, allocCoeffs) / DiffusionTerm(rg, allocCoefficients)
Construct_Term(allocCoeffs) ==
    /\ life \in {"none", "destroyed"}
    /\ allocCoeffs => CanAllocate
    /\ life' = "alive"
    /\ termShape' = gridShape
    /\ tOp' = "Construct"
    /\ IF allocCoeffs
         THEN Allocate(gridShape)
         ELSE /\ tRealloc' = FALSE
              /\ UNCHANGED <<heap, coef, coefficientsShared>>
    /\ UNCHANGED <<gridShape, tResized>>

\* AllocateCoefficients(), called with the cached grid sizes up to date.
AllocateCoefficients ==
    /\ life = "alive"
    /\ termShape = gridShape
    /\ CanAllocate
    /\ \/ (~coefficientsShared) /\ Aborts("AllocateCoefficients")
       \/ /\ Allocate(termShape)
          /\ tOp' = "AllocateCoefficients"
          /\ UNCHANGED <<termShape, gridShape, life, tResized>>

\* SetCoefficients(...): b is a set of buffers of another owner.
SetCoefficients(b) ==
    /\ life = "alive"
    /\ heap[b].owner = "ext"
    /\ \/ Aborts("SetCoefficients")
       \/ /\ heap' = DeallocateCoefficients(heap)
          /\ coef' = b
          /\ coefficientsShared' = TRUE
          /\ tOp' = "SetCoefficients"
          /\ tRealloc' = FALSE
          /\ UNCHANGED <<termShape, gridShape, life, tResized>>

\* Rebuild(): the term writes its coefficients (here: non-zero values).
\* Writing through pointers to freed memory may abort the program or pass
\* unnoticed.
WriteCoefficients ==
    /\ life = "alive"
    /\ termShape = gridShape
    /\ coef # 0
    /\ tOp' = "Rebuild"
    /\ tRealloc' = FALSE
    /\ IF heap[coef].state = "live"
         THEN /\ heap' = [heap EXCEPT ![coef].zero = FALSE]
              /\ UNCHANGED life
         ELSE /\ life' \in {"alive", "crashed"}
              /\ UNCHANGED heap
    /\ UNCHANGED <<coef, coefficientsShared, termShape, gridShape, tResized>>

\* The grid is rebuilt with another size.
GridResize ==
    /\ life # "crashed"
    /\ \E sh \in GridShapes \ {gridShape} : gridShape' = sh
    /\ tOp' = "GridResize"
    /\ tRealloc' = FALSE
    /\ UNCHANGED <<heap, coef, coefficientsShared, termShape, life, tResized>>

\* GridRebuilt(): EquationTerm::GridRebuilt caches the grid sizes, then
\* the coefficients are allocated anew unless they are shared.
GridRebuilt ==
    /\ life = "alive"
    /\ Reallocates => CanAllocate
    /\ \/ Reallocates /\ Aborts("GridRebuilt")
       \/ /\ tOp' = "GridRebuilt"
          /\ tResized' = (termShape # gridShape)
          /\ termShape' = gridShape
          /\ IF Reallocates
               THEN Allocate(gridShape)
               ELSE /\ tRealloc' = FALSE
                    /\ UNCHANGED <<heap, coef, coefficientsShared>>
          /\ UNCHANGED <<gridShape, life>>

\* ~AdvectionTerm() / ~DiffusionTerm()
Destructor ==
    /\ life = "alive"
    /\ \/ (~coefficientsShared) /\ Aborts("Destructor")
       \/ /\ heap' = IF ~coefficientsShared THEN DeallocateCoefficients(heap) ELSE heap
          /\ life' = "destroyed"
          /\ coef' = 0
          /\ coefficientsShared' = FALSE
          /\ tOp' = "Destructor"
          /\ tRealloc' = FALSE
          /\ UNCHANGED <<termShape, gridShape, tResized>>

NextTerm ==
    \/ ExternalAllocate /\ UNCHANGED besideTerm
    \/ (\E a \in BOOLEAN : Construct_Term(a)) /\ UNCHANGED besideTerm
    \/ AllocateCoefficients /\ UNCHANGED besideTerm
    \/ (\E b \in Buffers : SetCoefficients(b)) /\ UNCHANGED besideTerm
    \/ WriteCoefficients /\ UNCHANGED besideTerm
    \/ GridResize /\ UNCHANGED besideTerm
    \/ GridRebuilt /\ UNCHANGED besideTerm
    \/ Destructor /\ UNCHANGED besideTerm

InitTerm ==
    /\ InitComponentsNone
    /\ InitBM
    /\ InitSolverIdle
    /\ InitTermNone
    /\ InitStencilNone
    /\ InitQuantityNone

SpecTerm == InitTerm /\ [][NextTerm]_vars

\* C7: buffers handed in through SetCoefficients are never freed by the
\* term (not by a later SetCoefficients, AllocateCoefficients, GridRebuilt
\* or the destructor), and GridRebuilt does not reallocate while the
\* coefficients are shared.
C7_SharedNeverFreed ==
    [][/\ \A b \in Buffers :
             (heap[b].owner = "ext" /\ heap'[b].state = "freed")
                 => heap[b].state = "freed"
       /\ (tOp' = "GridRebuilt" /\ coefficientsShared)
             => (~tRealloc' /\ coef' = coef /\ coefficientsShared')]_vars

\* C8 as stated: GridRebuilt reallocates exactly when the grid size changed
\* and the buffers are owned, and all coefficients are zero afterwards.
C8_ReallocIffResized ==
    [][tOp' = "GridRebuilt" =>
          /\ tRealloc' <=> (termShape # gridShape /\ ~coefficientsShared)
          /\ coef' # 0 => heap'[coef'].zero]_vars

\* C8 as the code has it: GridRebuilt reallocates exactly when the buffers
\* are owned, whatever the grid size; the new buffers have the size of the
\* grid and are all zero, the old ones are deleted; shared buffers and
\* their contents are left as they are.
C8_ReallocIffOwned ==
    [][tOp' = "GridRebuilt" =>
          /\ life' = "alive"
          /\ termShape' = gridShape
          /\ tRealloc' <=> ~coefficientsShared
          /\ tRealloc' =>
                /\ coef' # coef
                /\ heap[coef'].state = "unused"
                /\ heap'[coef'] = [state |-> "live", owner |-> "term",
                                   shape |-> gridShape, zero |-> TRUE]
                /\ coef # 0 => heap'[coef].state = "freed"
                /\ ~coefficientsShared'
          /\ ~tRealloc' =>
                /\ heap' = heap
                /\ coef' = coef
                /\ coefficientsShared']_vars

C8_Witness ==
    /\ tOp = "GridRebuilt"
    /\ life = "alive"
    /\ tRealloc
    /\ ~tResized
    /\ heap[coef].state = "live" /\ heap[coef].zero
    /\ \E b \in Buffers : heap[b].owner = "term" /\ heap[b].state = "freed"

(***************************************************************************)
(* BlockMatrix under the calls that work on whole blocks.                  *)
(***************************************************************************)
BlockSizes == {1, 2}

NextBlocks ==
    \/ (\E n \in BlockSizes, nnz \in NnzValues : CreateSubEquation(n, nnz))
          /\ UNCHANGED besideBM
    \/ ConstructSystem /\ UNCHANGED besideBM
    \/ (\E k \in BlockIndices : GetOffset(k)) /\ UNCHANGED besideBM
    \/ (\E r \in BlockIndices, c \in BlockIndices : SelectSubEquation(r, c))
          /\ UNCHANGED besideBM
    \/ (\E k \in BlockIndices : ZeroEquation(k)) /\ UNCHANGED besideBM
    \/ (\E dt \in DtValues : IMinusDtA(dt)) /\ UNCHANGED besideBM

SpecBlocks == InitBlockMatrix /\ [][NextBlocks]_vars

\* Were the block indices the last call was given all indices of created
\* sub-equations?
ArgsValid(op, args, s) ==
    /\ args[1] >= 0 /\ args[1] < Len(s)
    /\ op = "SelectSubEquation" => (args[2] >= 0 /\ args[2] < Len(s))

\* C11: GetOffset, SelectSubEquation and ZeroEquation given an index that
\* is not the index of a created sub-equation fail (with the out-of-range
\* error of the checked vector access), return nothing, change nothing in
\* the matrix, and leave the selected row offset, column offset and block
\* size as they were.
C11_InvalidBlockFails ==
    [][(/\ bmOp' \in {"GetOffset", "SelectSubEquation", "ZeroEquation"}
        /\ ~ArgsValid(bmOp', bmArgs', subeqs))
          => /\ bmErr' = "out_of_range"
             /\ bmRet' = -1
             /\ touched' = NoPair
             /\ rowOffset' = rowOffset
             /\ colOffset' = colOffset
             /\ blockn' = blockn
             /\ sel' = sel]_vars

C11_Witness ==
    /\ bmOp = "SelectSubEquation"
    /\ bmErr = "out_of_range"
    /\ bmArgs[1] = 0 /\ Len(subeqs) = 2 /\ bmArgs[2] = 2
    /\ sel = <<1, 1>>
    /\ rowOffset = subeqs[2].offset /\ rowOffset > 0
    /\ blockn = subeqs[2].n

\* Do the row ranges of the j-th and the k-th sub-equation of a list have
\* no row in common?
Apart(s, j, k) ==
    \/ s[j].offset + s[j].n <= s[k].offset
    \/ s[k].offset + s[k].n <= s[j].offset

\* C12: the row ranges of distinct sub-equations never overlap, and no call
\* changes the offset or the size of a sub-equation that exists.
C12_RangesFixed ==
    [][/\ Len(subeqs') >= Len(subeqs)
       /\ SubSeq(subeqs', 1, Len(subeqs)) = subeqs
       /\ \A j, k \in 1..Len(subeqs') : j < k => Apart(subeqs', j, k)]_vars

C12_Witness ==
    /\ bmOp = "IMinusDtA"
    /\ bmErr = "none"
    /\ Len(subeqs) = MaxSubEq
    /\ \A k \in 1..Len(subeqs) : subeqs[k].n > 1
    /\ touched[1] > 0 /\ touched[2] > 1

(***************************************************************************)
(* Sizes of the coefficient arrays.                                        *)
(***************************************************************************)
\* nr and the per-radius n1, n2 of the grids the model resizes between.
GridOf(sh) ==
    IF sh = 1 THEN [nr |-> 1, n1 |-> <<2>>, n2 |-> <<1>>]
              ELSE [nr |-> 2, n1 |-> <<2, 2>>, n2 |-> <<3, 3>>]

\* The accumulation loop of AllocateCoefficients, for i < k.
RECURSIVE CountElements(_, _, _)
CountElements(g, k, acc) ==
    IF k = 0 THEN acc
    ELSE CountElements(g, k - 1,
            [fr |-> acc.fr + g.n1[k] * g.n2[k],
             f1 |-> acc.f1 + (g.n1[k] + 1) * g.n2[k],
             f2 |-> acc.f2 + g.n1[k] * (g.n2[k] + 1)])

\* nElements_fr, nElements_f1, nElements_f2 of AllocateCoefficients for
\* cached grid sizes g.
NElementsBad(g) == CountElements(g, g.nr, [fr |-> 0, f1 |-> 0, f2 |-> 0])
NElements(g) ==
    CountElements(g, g.nr, [fr |-> g.n1[g.nr] * g.n2[g.nr], f1 |-> 0, f2 |-> 0])

\* Lengths of the arrays in buffer b (allocated for the grid sizes cached
\* when it was allocated).
SizesIn(h, b) == NElements(GridOf(h[b].shape))
ArraySizes(b) == SizesIn(heap, b)

\* Number of faces of a grid: radial faces 0..nr (the outermost has the
\* momentum grid of the last radius), p1 faces and p2 faces of every radius.
FaceGridSizes(g) ==
    [fr |-> SetSum(0..g.nr,
                   [f \in 0..g.nr |->
                       LET c == IF f = g.nr THEN g.nr ELSE f + 1
                       IN g.n1[c] * g.n2[c]]),
     f1 |-> SetSum(1..g.nr, [c \in 1..g.nr |-> (g.n1[c] + 1) * g.n2[c]]),
     f2 |-> SetSum(1..g.nr, [c \in 1..g.nr |-> g.n1[c] * (g.n2[c] + 1)])]

TermGrids ==
    {[nr |-> 1, np1 |-> 2, np2 |-> 1], [nr |-> 1, np1 |-> 1, np2 |-> 2],
     [nr |-> 1, np1 |-> 3, np2 |-> 2], [nr |-> 2, np1 |-> 2, np2 |-> 1],
     [nr |-> 2, np1 |-> 2, np2 |-> 2]}

NCellsMomentum == tgrid.np1 * tgrid.np2
NCells == tgrid.nr * NCellsMomentum
CellIndices == 0..(NCells - 1)

\* The vectors a term is applied to: constant in space, or not.
XPatterns == {"constant", "ramp"}
XVector(pat) == [c \in CellIndices |-> IF pat = "constant" THEN 3 ELSE 1 + c]
ZeroVector == [c \in CellIndices |-> 0]
ZeroMatrix == [rc \in CellIndices \X CellIndices |-> 0]

\* The coefficient a term holds on the face below cell (ir, i, j) in
\* direction dir (0: radius, 1: p1, 2: p2), for the coefficient arrays `s'.
CoefAt(s, dir, ir, i, j) == s + dir + 2 * ir + 3 * i + 5 * j

\* AllocateInterpolationCoefficients() fills the interpolation arrays with
\* 0.5; SetInterpolationCoefficients() replaces them with the caller's.
DefaultDelta == 1
DeltaAt(dir, ir, i, j) ==
    IF interp = "default" THEN DefaultDelta ELSE (dir + ir + i + j) % 3

\* The stencil of cell (ir, i, j), as the list of f(K, I, J, V) it expands
\* to: the flux through each face the cell shares with a neighbour, leaving
\* through the upper face and entering through the lower one.
FaceCalls(cond, seq) == IF cond THEN seq ELSE << >>

AdvectionFace(sign, S, d, lo, hi) ==
    << <<lo[1], lo[2], lo[3], sign * S * (2 - d)>>,
       <<hi[1], hi[2], hi[3], sign * S * d>> >>

DiffusionFace(D, self, other) ==
    << <<other[1], other[2], other[3], D>>,
       <<self[1], self[2], self[3], 0 - D>> >>

StencilFace(kind, s, dir, self, lo, hi) ==
    LET S == CoefAt(s, dir, hi[1], hi[2], hi[3])
        d == DeltaAt(dir, hi[1], hi[2], hi[3])
    IN  IF kind = "advection"
          THEN AdvectionFace(IF self = hi THEN -1 ELSE 1, S, d, lo, hi)
          ELSE DiffusionFace(S, self, IF self = hi THEN lo ELSE hi)

StencilOf(kind, s, ir, i, j) ==
    LET c == <<ir, i, j>>
    IN  FaceCalls(ir > 0, StencilFace(kind, s, 0, c, <<ir - 1, i, j>>, c))
        \o FaceCalls(ir < tgrid.nr - 1,
                     StencilFace(kind, s, 0, c, c, <<ir + 1, i, j>>))
        \o FaceCalls(i > 0, StencilFace(kind, s, 1, c, <<ir, i - 1, j>>, c))
        \o FaceCalls(i < tgrid.np1 - 1,
                     StencilFace(kind, s, 1, c, c, <<ir, i + 1, j>>))
        \o FaceCalls(j > 0, StencilFace(kind, s, 2, c, <<ir, i, j - 1>>, c))
        \o FaceCalls(j < tgrid.np2 - 1,
                     StencilFace(kind, s, 2, c, c, <<ir, i, j + 1>>))

\* The cell the loops of the stencil reach as their k-th (k from 0), and the
\* offset of its radius.
CellAt(k) ==
    [ir |-> k \div NCellsMomentum,
     j |-> (k % NCellsMomentum) \div tgrid.np1,
     i |-> k % tgrid.np1,
     offset |-> (k \div NCellsMomentum) * NCellsMomentum]

\* The row and the column of f(K, I, J, V) in SetMatrixElements, and the
\* element of vec and of x in SetVectorElements, for the cell c.
MatrixRow(c) == c.offset + c.j * tgrid.np1 + c.i
MatrixColumn(c, K, I, J) ==
    c.offset + (K - c.ir) * tgrid.np2 * tgrid.np1 + J * tgrid.np1 + I
VectorRow(c) == c.offset + c.j * tgrid.np1 + c.i
VectorColumnBad(c, K, I, J) == c.offset + J * tgrid.np1 + I
VectorColumn(c, K, I, J) ==
    c.offset + (K - c.ir) * tgrid.np2 * tgrid.np1 + J * tgrid.np1 + I

\* Matrix::SetElement(i, j, v) with its default insert mode: v is added to
\* the element.
AddElement(m, r, c, v) == [m EXCEPT ![<<r, c>>] = @ + v]

\* vec[...] += (V) * x[...]
AddToVectorBad(v, r, a) == [v EXCEPT ![r] = a]
AddToVector(v, r, a) == [v EXCEPT ![r] = @ + a]

\* The calls of one cell applied to a matrix, and to a vector.
RECURSIVE CellIntoMatrix(_, _, _, _)
CellIntoMatrix(m, c, fs, n) ==
    IF n > Len(fs) THEN m
    ELSE CellIntoMatrix(
             AddElement(m, MatrixRow(c),
                        MatrixColumn(c, fs[n][1], fs[n][2], fs[n][3]),
                        fs[n][4]),
             c, fs, n + 1)

RECURSIVE CellIntoVector(_, _, _, _, _)
CellIntoVector(v, x, c, fs, n) ==
    IF n > Len(fs) THEN v
    ELSE CellIntoVector(
             AddToVector(v, VectorRow(c),
                         fs[n][4]
                           * x[VectorColumn(c, fs[n][1], fs[n][2], fs[n][3])]),
             x, c, fs, n + 1)

\* SetVectorElements(vec, x) with the coefficient arrays `s': every cell in
\* turn.
RECURSIVE SetVectorElementsFrom(_, _, _, _, _)
SetVectorElementsFrom(v, x, kind, s, k) ==
    IF k >= NCells THEN v
    ELSE LET c == CellAt(k)
         IN  SetVectorElementsFrom(
                 CellIntoVector(v, x, c, StencilOf(kind, s, c.ir, c.i, c.j), 1),
                 x, kind, s, k + 1)

(***************************************************************************)
(* AdvectionTerm::SetJacobianBlock (AdvectionTerm.cpp).                    *)
(***************************************************************************)

UnknownIds == 0..2

\* The dependencies a term can have registered: ids and their multiples.
Dependencies ==
    {<< << >>, << >> >>, << <<1>>, <<2>> >>, << <<2, 0>>, <<1, 2>> >>}

\* The coefficient arrays SetPartialAdvectionTerm() leaves in dfr, df1 and
\* df2 for the n-th multiple of derivId.
PartialSeed(derivId, n) == 10 * (n + 1) + derivId

\* The search of derivIds: the multiples of the last entry equal to derivId
\* (-1: hasDerivIdContribution stays false).
RECURSIVE NMultiplesFrom(_, _, _)
NMultiplesFrom(derivId, k, found) ==
    IF k > Len(derivIds) THEN found
    ELSE NMultiplesFrom(derivId, k + 1,
                        IF derivIds[k] = derivId THEN derivNMultiples[k]
                        ELSE found)

NMultiplesOf(derivId) == NMultiplesFrom(derivId, 1, -1)

\* The column of the Jacobian block written for multiple n at radius ir.
JacobianColumnIndexBad(n, ir) == n + ir
JacobianColumnIndex(n, ir) == n * tgrid.nr + ir

\* jac->SetElement(offset + n1[ir]*j + i, n*nr+ir, JacobianColumn[...]) for
\* the cells from the k-th on.
RECURSIVE ColumnWrites(_, _, _)
ColumnWrites(col, n, k) ==
    IF k >= NCells THEN << >>
    ELSE LET c == CellAt(k)
             row == c.offset + tgrid.np1 * c.j + c.i
         IN  << [op |-> "SetElement", row |-> row,
                 col |-> JacobianColumnIndex(n, c.ir), val |-> col[row]] >>
             \o ColumnWrites(col, n, k + 1)

RECURSIVE MultipleWrites(_, _, _)
MultipleWrites(derivId, nMultiples, n) ==
    IF n >= nMultiples THEN << >>
    ELSE ColumnWrites(
             SetVectorElementsFrom(ZeroVector, xvec, "advection",
                                   PartialSeed(derivId, n), 0),
             n, 0)
         \o MultipleWrites(derivId, nMultiples, n + 1)

OwnMatrixWhenBad(uqtyId, derivId) == uqtyId = derivId
OwnMatrixWhen(uqtyId, derivId) == uqtyId = derivId /\ ~coefficientsShared

SetJacobianBlock(uqtyId, derivId) ==
    /\ pcT = "idle"
    /\ jArgs' = <<uqtyId, derivId>>
    /\ calls' =
         (IF OwnMatrixWhen(uqtyId, derivId)
            THEN << [op |-> "SetMatrixElements", row |-> -1, col |-> -1,
                     val |-> 0] >>
            ELSE << >>)
         \o (IF NMultiplesOf(derivId) = -1 THEN << >>
             ELSE MultipleWrites(derivId, NMultiplesOf(derivId), 0))
    /\ UNCHANGED <<tgrid, termKind, coefSeed, interp, pastEnd, derivIds,
                   derivNMultiples, xvec, tvec, mat, pcT, lp>>

\* An advection term with its dependencies registered, coefficients its own
\* or shared, on some grid.
InitJacobianBlock ==
    /\ InitComponentsNone
    /\ InitBM
    /\ InitSolverIdle
    /\ heap = [b \in Buffers |-> NoBuffer]
    /\ coef = 0
    /\ coefficientsShared \in BOOLEAN
    /\ termShape = 1
    /\ gridShape = 1
    /\ life = "none"
    /\ tOp = "none"
    /\ tRealloc = FALSE
    /\ tResized = FALSE
    /\ InitQuantityNone
    /\ tgrid \in TermGrids
    /\ termKind = "advection"
    /\ coefSeed = 1
    /\ interp = "default"
    /\ pastEnd = [F |-> 0, d |-> 1]
    /\ \E dep \in Dependencies : derivIds = dep[1] /\ derivNMultiples = dep[2]
    /\ jArgs = NoPair
    /\ xvec \in {XVector(pat) : pat \in XPatterns}
    /\ tvec = << >>
    /\ mat = << >>
    /\ calls = << >>
    /\ pcT = "idle"
    /\ lp = NoLoop

NextJacobianBlock ==
    \E u, d \in UnknownIds : SetJacobianBlock(u, d) /\ UNCHANGED besideStencil

SpecJacobianBlock == InitJacobianBlock /\ [][NextJacobianBlock]_vars

\* The elements the column writes of the last call went to.
WrittenElements ==
    {<<calls[k].row, calls[k].col>> :
        k \in {m \in 1..Len(calls) : calls[m].op = "SetElement"}}

OwnMatrixCalls == {k \in 1..Len(calls) : calls[k].op = "SetMatrixElements"}

\* Claim C14: SetJacobianBlock(uqtyId, derivId, jac, x) adds the term's own
\* matrix elements, once, exactly when derivId = uqtyId and the coefficients
\* are not shared; when derivId is a registered dependency with nMultiples
\* multiples it also writes, for every n < nMultiples and every radius ir,
\* the rows of the cells of that radius in the one column n*nr + ir of the
\* block, each once; for any other derivId it writes no column.
C14_JacobianBlockWrites ==
    jArgs # NoPair =>
      /\ Cardinality(OwnMatrixCalls)
           = (IF jArgs[1] = jArgs[2] /\ ~coefficientsShared THEN 1 ELSE 0)
      /\ \A k \in OwnMatrixCalls : k = 1
      /\ LET reg == {k \in 1..Len(derivIds) : derivIds[k] = jArgs[2]}
             nMultiples == IF reg = {} THEN 0
                           ELSE derivNMultiples[CHOOSE k \in reg : TRUE]
         IN  /\ WrittenElements
                  = {<<ir * NCellsMomentum + c, n * tgrid.nr + ir>> :
                        ir \in 0..(tgrid.nr - 1),
                        c \in 0..(NCellsMomentum - 1),
                        n \in 0..(nMultiples - 1)}
             /\ Len(calls) = Cardinality(OwnMatrixCalls)
                               + nMultiples * NCells

\* A call for a dependency with two multiples on two radii, in the
\* equation's own block with owned coefficients: the matrix and four
\* columns.
C14_Witness ==
    /\ jArgs = <<0, 0>>
    /\ ~coefficientsShared
    /\ derivIds = <<2, 0>>
    /\ tgrid.nr = 2
    /\ OwnMatrixCalls = {1}
    /\ {e[2] : e \in WrittenElements} = {0, 1, 2, 3}
    /\ \E k \in 1..Len(calls) : calls[k].op = "SetElement" /\ calls[k].val # 0

(***************************************************************************)
(* SetMatrixElements and SetVectorElements of one term, cell by cell       *)
(* (AdvectionTerm.cpp, DiffusionTerm.cpp).                                 *)
(***************************************************************************)

TermKinds == {"advection", "diffusion"}
CoefSeeds == {1, 2}

\* What the vector handed to SetVectorElements holds before the call.
InitialVector == [c \in CellIndices |-> 2 + c]

LoopAt(k) ==
    IF k >= NCells THEN [NoLoop EXCEPT !.idx = k]
    ELSE [NoLoop EXCEPT !.idx = k, !.ir = CellAt(k).ir, !.j = CellAt(k).j,
                        !.i = CellAt(k).i, !.offset = CellAt(k).offset]

\* One turn of the loops of SetMatrixElements(mat): the f(K, I, J, V) of a
\* cell.
SetMatrixElementsCell ==
    /\ pcT = "matrix"
    /\ LET c == CellAt(lp.idx)
       IN  mat' = CellIntoMatrix(mat, c,
                                 StencilOf(termKind, coefSeed, c.ir, c.i, c.j), 1)
    /\ lp' = LoopAt(lp.idx + 1)
    /\ pcT' = IF lp.idx + 1 = NCells THEN "matrix done" ELSE "matrix"
    /\ UNCHANGED <<tgrid, termKind, coefSeed, interp, pastEnd, derivIds,
                   derivNMultiples, jArgs, xvec, tvec, calls>>

\* SetVectorElements(vec, x) is entered.
SetVectorElementsBegin ==
    /\ pcT = "matrix done"
    /\ pcT' = "vector"
    /\ lp' = LoopAt(0)
    /\ UNCHANGED <<tgrid, termKind, coefSeed, interp, pastEnd, derivIds,
                   derivNMultiples, jArgs, xvec, tvec, mat, calls>>

\* One turn of the loops of SetVectorElements(vec, x).
SetVectorElementsCell ==
    /\ pcT = "vector"
    /\ LET c == CellAt(lp.idx)
       IN  tvec' = CellIntoVector(tvec, xvec, c,
                                  StencilOf(termKind, coefSeed, c.ir, c.i, c.j), 1)
    /\ lp' = LoopAt(lp.idx + 1)
    /\ pcT' = IF lp.idx + 1 = NCells THEN "done" ELSE "vector"
    /\ UNCHANGED <<tgrid, termKind, coefSeed, interp, pastEnd, derivIds,
                   derivNMultiples, jArgs, xvec, mat, calls>>

\* A term with fixed coefficients, a zeroed matrix, a vector x and a vector
\* that already holds values.
InitStencil ==
    /\ InitComponentsNone
    /\ InitBM
    /\ InitSolverIdle
    /\ InitTermNone
    /\ InitQuantityNone
    /\ tgrid \in TermGrids
    /\ termKind \in TermKinds
    /\ coefSeed \in CoefSeeds
    /\ interp \in {"default", "explicit"}
    /\ pastEnd = [F |-> 0, d |-> 1]
    /\ derivIds = << >>
    /\ derivNMultiples = << >>
    /\ jArgs = NoPair
    /\ xvec \in {XVector(pat) : pat \in XPatterns}
    /\ tvec = InitialVector
    /\ mat = ZeroMatrix
    /\ calls = << >>
    /\ pcT = "matrix"
    /\ lp = LoopAt(0)

NextStencil ==
    \/ SetMatrixElementsCell /\ UNCHANGED besideStencil
    \/ SetVectorElementsBegin /\ UNCHANGED besideStencil
    \/ SetVectorElementsCell /\ UNCHANGED besideStencil

SpecStencil == InitStencil /\ [][NextStencil]_vars

\* Row r of the matrix times x.
RowTimesX(r) == SetSum(CellIndices, [c \in CellIndices |-> mat[<<r, c>>] * xvec[c]])

\* Claim C15: with the coefficients of an advection or diffusion term held
\* fixed, SetVectorElements(vec, x) leaves vec = vec + M*x, M being what
\* SetMatrixElements added into a zeroed matrix; both add to what is there.
C15_VectorIsMatrixTimesX ==
    pcT = "done" =>
      \A r \in CellIndices : tvec[r] = InitialVector[r] + RowTimesX(r)

\* Both calls have run on two radii of 2 x 2 cells with x not constant: a
\* row of the matrix holds entries in its own radius and in the next one,
\* and an element of it was added to more than once.
C15_Witness ==
    /\ pcT = "done"
    /\ tgrid = [nr |-> 2, np1 |-> 2, np2 |-> 2]
    /\ xvec[0] # xvec[1]
    /\ mat[<<0, 4>>] # 0
    /\ mat[<<0, 1>>] # 0
    /\ mat[<<0, 0>>] # 0
    /\ tvec # InitialVector

\* What SetVectorElements added to the element r of the vector.
AddedTo(r) == tvec[r] - InitialVector[r]

PastEndDeltas == {0, 1, 2}

\* F1 = f1[ir] and F2 = f2[ir] hold GetNCells() elements each, delta1[ir]
\* and delta2[ir] hold n1*n2: element k of each, read as the code reads it.
ArrayCoef(dir, ir, k) == coefSeed + dir + 2 * ir + 3 * k
ReadF(dir, ir, k) ==
    IF k >= NCellsMomentum THEN pastEnd.F ELSE ArrayCoef(dir, ir, k)
ReadDelta(dir, ir, k) ==
    IF k >= NCellsMomentum THEN pastEnd.d
    ELSE IF interp = "default" THEN DefaultDelta ELSE (dir + ir + k) % 3

\* The two f(I, J, V) written for one face: (1 - delta) of the flux to the
\* first column, delta of it to the second.
FacePair(row, cell, face, S, d, lo, hi) ==
    << [op |-> "SetElement", row |-> row, col |-> lo, val |-> S * (2 - d),
        cell |-> cell, face |-> face, S |-> S, d |-> d],
       [op |-> "SetElement", row |-> row, col |-> hi, val |-> S * d,
        cell |-> cell, face |-> face, S |-> S, d |-> d] >>

\* #define f(I,J,V) mat->SetElement(offset + idx, offset + ((J)*np1) + (I), (V))
FluxRow(offset, idx) == offset + idx
FluxColumn(offset, I, J) == offset + J * tgrid.np1 + I

\* for (j ...) { S1 = F1[j*np1 + 1] ...; idx = j*np1 + 1;
FluxRowBegin ==
    /\ pcT = "row"
    /\ lp' = [lp EXCEPT !.i = 0,
                        !.idx = lp.j * tgrid.np1 + 1,
                        !.S1 = ReadF(1, lp.ir, lp.j * tgrid.np1 + 1)]
    /\ pcT' = "cell"
    /\ UNCHANGED <<tgrid, termKind, coefSeed, interp, pastEnd, derivIds,
                   derivNMultiples, jArgs, xvec, tvec, mat, calls>>

\* The body of the loop over i for the cell (ir, i, j).
FluxCell ==
    /\ pcT = "cell"
    /\ LET ir == lp.ir
           i == lp.i
           j == lp.j
           np1 == tgrid.np1
           np2 == tgrid.np2
           cell == <<ir, i, j>>
           lower == i > 0
           idx == IF lower THEN lp.idx + 1 ELSE lp.idx
           S1 == IF lower THEN ReadF(1, ir, idx) ELSE lp.S1
       IN  /\ calls' = calls
                \o FaceCalls(lower,
                     FacePair(FluxRow(lp.offset, lp.idx), cell, <<1, ir, i, j>>,
                              lp.S1, ReadDelta(1, ir, lp.idx),
                              FluxColumn(lp.offset, i - 1, j),
                              FluxColumn(lp.offset, i, j)))
                \o FaceCalls(i < np1 - 1,
                     FacePair(FluxRow(lp.offset, idx), cell, <<1, ir, i + 1, j>>,
                              S1, ReadDelta(1, ir, idx),
                              FluxColumn(lp.offset, i, j),
                              FluxColumn(lp.offset, i + 1, j)))
                \o FaceCalls(j > 0,
                     FacePair(FluxRow(lp.offset, idx), cell, <<2, ir, i, j>>,
                              ReadF(2, ir, idx), ReadDelta(2, ir, idx),
                              FluxColumn(lp.offset, i, j - 1),
                              FluxColumn(lp.offset, i, j)))
                \o FaceCalls(j < np2 - 1,
                     FacePair(FluxRow(lp.offset, idx), cell, <<2, ir, i, j + 1>>,
                              ReadF(2, ir, idx + np1), ReadDelta(2, ir, idx + np1),
                              FluxColumn(lp.offset, i, j),
                              FluxColumn(lp.offset, i, j + 1)))
           /\ lp' = [lp EXCEPT !.idx = idx, !.S1 = S1,
                               !.i = IF i + 1 < np1 THEN i + 1 ELSE 0,
                               !.j = IF i + 1 < np1 THEN j ELSE j + 1]
           /\ pcT' = IF i + 1 < np1 THEN "cell"
                     ELSE IF j + 1 < np2 THEN "row" ELSE "radius"
    /\ UNCHANGED <<tgrid, termKind, coefSeed, interp, pastEnd, derivIds,
                   derivNMultiples, jArgs, xvec, tvec, mat>>

\* offset += np1*np2; and the next radius, if there is one.
FluxRadiusEnd ==
    /\ pcT = "radius"
    /\ lp' = [lp EXCEPT !.offset = lp.offset + tgrid.np1 * tgrid.np2,
                        !.ir = lp.ir + 1, !.j = 0, !.i = 0]
    /\ pcT' = IF lp.ir + 1 < tgrid.nr THEN "row" ELSE "done"
    /\ UNCHANGED <<tgrid, termKind, coefSeed, interp, pastEnd, derivIds,
                   derivNMultiples, jArgs, xvec, tvec, mat, calls>>

\* SetMatrixElements is entered for an advection term on some grid.
InitFluxes ==
    /\ InitComponentsNone
    /\ InitBM
    /\ InitSolverIdle
    /\ InitTermNone
    /\ InitQuantityNone
    /\ tgrid \in TermGrids
    /\ termKind = "advection"
    /\ coefSeed \in CoefSeeds
    /\ interp \in {"default", "explicit"}
    /\ pastEnd \in [F : JunkValues, d : PastEndDeltas]
    /\ derivIds = << >>
    /\ derivNMultiples = << >>
    /\ jArgs = NoPair
    /\ xvec = << >>
    /\ tvec = << >>
    /\ mat = << >>
    /\ calls = << >>
    /\ pcT = "row"
    /\ lp = NoLoop

NextFluxes ==
    \/ FluxRowBegin /\ UNCHANGED besideStencil
    \/ FluxCell /\ UNCHANGED besideStencil
    \/ FluxRadiusEnd /\ UNCHANGED besideStencil

SpecFluxes == InitFluxes /\ [][NextFluxes]_vars

\* The cells on the two sides of a face <<dir, ir, i, j>>: the face lies
\* below the cell (i, j) in direction dir.
FaceLower(f) == IF f[1] = 1 THEN <<f[3] - 1, f[4]>> ELSE <<f[3], f[4] - 1>>
FaceHigher(f) == <<f[3], f[4]>>
CellColumn(ir, c) == ir * NCellsMomentum + c[2] * tgrid.np1 + c[1]
InteriorFaceCount ==
    tgrid.nr * ((tgrid.np1 - 1) * tgrid.np2 + tgrid.np1 * (tgrid.np2 - 1))

\* Claim C16: in AdvectionTerm::SetMatrixElements every interior face
\* between two neighbouring cells of a momentum direction, with flux
\* coefficient S and weight delta, contributes S*(1 - delta) to the column
\* of the lower-index neighbour and S*delta to the column of the
\* higher-index one, from each of its two cells; a boundary face
\* contributes nothing; and delta is 0.5 at every face unless the
\* interpolation coefficients were set explicitly.
C16_FaceWeights ==
    /\ \A k \in 1..Len(calls) :
         LET c == calls[k]
         IN  /\ c.face[3] \in 0..(tgrid.np1 - 1)
             /\ c.face[4] \in 0..(tgrid.np2 - 1)
             /\ FaceLower(c.face)[1] >= 0
             /\ FaceLower(c.face)[2] >= 0
             /\ IF k % 2 = 1
                  THEN /\ c.col = CellColumn(c.face[2], FaceLower(c.face))
                       /\ c.val = c.S * (2 - c.d)
                  ELSE /\ c.col = CellColumn(c.face[2], FaceHigher(c.face))
                       /\ c.val = c.S * c.d
                       /\ c.face = calls[k - 1].face
                       /\ c.S = calls[k - 1].S
                       /\ c.d = calls[k - 1].d
             /\ interp = "default" => c.d = DefaultDelta
    /\ pcT = "done" => Len(calls) = 4 * InteriorFaceCount

\* Claim C17: SetMatrixElements writes what the cell (ir, i, j) contributes
\* only into the row of that cell, offset(ir) + j*np1 + i.
C17_OwnRowOnly ==
    \A k \in 1..Len(calls) :
       calls[k].row = CellColumn(calls[k].cell[1],
                                 <<calls[k].cell[2], calls[k].cell[3]>>)

(***************************************************************************)
(* Solver::Initialize and Solver::CalculateNonTrivial2Norm (Solver.cpp).   *)
(***************************************************************************)

\* The unknowns of the system, and uqn->NumberOfElements() of each.
NormUnknowns == {0, 1, 2}
NumberOfElements(id) == IF id = 0 THEN 2 ELSE IF id = 1 THEN 1 ELSE 3

\* The lists of non-trivial unknowns Initialize can be given.
UnknownLists ==
    {<<0>>, <<1>>, <<2>>, <<0, 1>>, <<0, 2>>, <<1, 2>>, <<2, 0>>, <<0, 1, 2>>}

RECURSIVE TotalElements(_, _)
TotalElements(ids, k) ==
    IF k > Len(ids) THEN 0
    ELSE NumberOfElements(ids[k]) + TotalElements(ids, k + 1)

\* Solver::Initialize(size, unknowns), size being the number of elements of
\* the unknowns listed.
Initialize(unknowns) ==
    /\ matrix_size' = TotalElements(unknowns, 1)
    /\ nontrivial_unknowns' = unknowns
    /\ nvec' = << >>
    /\ retvec' = << >>
    /\ qOp' = "Initialize"
    /\ UNCHANGED <<qData, olddata, oldtime, times, store, qheap, qChanged,
                   qArgs>>

\* sqrt(s), kept as the number it is the root of.
Sqrt(s) == [root |-> s]

\* retvec[i] += vec[offset+j]*vec[offset+j] for j from k up to N - 1.
RECURSIVE SumOfSquares(_, _, _, _)
SumOfSquares(v, offset, N, k) ==
    IF k >= N THEN 0
    ELSE v[offset + k] * v[offset + k] + SumOfSquares(v, offset, N, k + 1)

\* offset += N
NextOffsetBad(offset, N) == offset + 1
NextOffset(offset, N) == offset + N

\* The loop over nontrivial_unknowns from its i-th entry on.
RECURSIVE NormsFrom(_, _, _, _)
NormsFrom(v, ids, i, offset) ==
    IF i > Len(ids) THEN << >>
    ELSE LET N == NumberOfElements(ids[i])
         IN  <<Sqrt(SumOfSquares(v, offset, N, 0))>>
             \o NormsFrom(v, ids, i + 1, NextOffset(offset, N))

VectorValues == {0, 1, 2}
VectorsOf(n) == [0..(n - 1) -> VectorValues]

CalculateNonTrivial2Norm(v) ==
    /\ qOp # "none"
    /\ nvec' = v
    /\ retvec' = NormsFrom(v, nontrivial_unknowns, 1, 0)
    /\ qOp' = "CalculateNonTrivial2Norm"
    /\ UNCHANGED <<qData, olddata, oldtime, times, store, qheap, qChanged,
                   nontrivial_unknowns, matrix_size, qArgs>>

\* A Solver before Initialize.
InitNorm ==
    /\ InitComponentsNone
    /\ InitBM
    /\ InitSolverIdle
    /\ InitTermNone
    /\ InitStencilNone
    /\ InitQuantityNone

NextNorm ==
    \/ \E unknowns \in UnknownLists :
          Initialize(unknowns) /\ UNCHANGED besideQuantity
    \/ \E v \in VectorsOf(matrix_size) :
          CalculateNonTrivial2Norm(v) /\ UNCHANGED besideQuantity

SpecNorm == InitNorm /\ [][NextNorm]_vars

\* The slice of the i-th non-trivial unknown.
SliceStart(i) ==
    SetSum(1..(i - 1),
           [m \in 1..Len(nontrivial_unknowns) |->
               NumberOfElements(nontrivial_unknowns[m])])
Slice(i) ==
    {k \in 0..(matrix_size - 1) :
        /\ SliceStart(i) <= k
        /\ k < SliceStart(i) + NumberOfElements(nontrivial_unknowns[i])}

\* Claim C19: CalculateNonTrivial2Norm(vec, out) leaves in out[i] the 2-norm
\* of the elements of vec in the slice of the i-th non-trivial unknown, the
\* slice starting at the sum of the element counts of the unknowns before
\* it and being as long as its own element count; the slices are disjoint
\* and cover the first matrix_size elements, and no element outside a slice
\* changes the norm of that slice.
C19_NormPerSlice ==
    qOp = "CalculateNonTrivial2Norm" =>
      LET I == 1..Len(nontrivial_unknowns)
      IN  /\ Len(retvec) = Len(nontrivial_unknowns)
          /\ \A i \in I :
               /\ Cardinality(Slice(i))
                    = NumberOfElements(nontrivial_unknowns[i])
               /\ retvec[i]
                    = Sqrt(SetSum(Slice(i),
                                  [k \in 0..(matrix_size - 1) |-> nvec[k] * nvec[k]]))
               /\ \A k \in (0..(matrix_size - 1)) \ Slice(i) :
                    \A x \in VectorValues :
                       NormsFrom([nvec EXCEPT ![k] = x],
                                 nontrivial_unknowns, 1, 0)[i] = retvec[i]
          /\ \A i, m \in I : i # m => Slice(i) \cap Slice(m) = {}
          /\ UNION {Slice(i) : i \in I} = 0..(matrix_size - 1)

\* Norms of three unknowns of 2, 1 and 3 elements, all different and none
\* zero.
C19_Witness ==
    /\ qOp = "CalculateNonTrivial2Norm"
    /\ nontrivial_unknowns = <<0, 1, 2>>
    /\ retvec = <<Sqrt(5), Sqrt(1), Sqrt(9)>>
    /\ nvec[2] = 1

(***************************************************************************)
(* QuantityData: AllocateData, Store and SaveStep (QuantityData.cpp).      *)
(***************************************************************************)

\* nElements of the object, the values its elements take, the times steps
\* are saved at, and how many steps are saved at most.
QElements == 2
QValues == {0, 1}
QVectors == [1..QElements -> QValues]
SaveTimes == {1, 2}
MaxSaved == 2

\* QuantityData::AllocateData(): data and olddata zeroed, nothing saved.
InitQuantity ==
    /\ InitComponentsNone
    /\ InitBM
    /\ InitSolverIdle
    /\ InitTermNone
    /\ InitStencilNone
    /\ qData = [i \in 1..QElements |-> 0]
    /\ olddata = [i \in 1..QElements |-> 0]
    /\ oldtime = 0
    /\ times = << >>
    /\ store = << >>
    /\ qheap = [k \in 1..MaxSaved |-> << >>]
    /\ qChanged = FALSE
    /\ nontrivial_unknowns = << >>
    /\ matrix_size = 0
    /\ nvec = << >>
    /\ retvec = << >>
    /\ qOp = "AllocateData"
    /\ qArgs = << >>

\* Store(const real_t *vec, offset, mayBeConstant) and the Store of an m x n
\* array, vec standing for the nElements values read.
StoreArray(v, mayBeConstant) ==
    /\ qData' = Store(qData, v, mayBeConstant).data
    /\ qChanged' = Store(qData, v, mayBeConstant).hasChanged
    /\ qOp' = "Store"
    /\ qArgs' = <<v, mayBeConstant>>
    /\ UNCHANGED <<olddata, oldtime, times, store, qheap, nontrivial_unknowns,
                   matrix_size, nvec, retvec>>

\* Store(Vec& vec, offset, mayBeConstant): VecEqual decides "constant".
StoreVec(v, mayBeConstant) ==
    /\ IF mayBeConstant /\ v = qData
         THEN qChanged' = FALSE /\ qData' = qData
         ELSE qChanged' = TRUE /\ qData' = v
    /\ qOp' = "Store"
    /\ qArgs' = <<v, mayBeConstant>>
    /\ UNCHANGED <<olddata, oldtime, times, store, qheap, nontrivial_unknowns,
                   matrix_size, nvec, retvec>>

\* The pointer SaveStep pushes on store: v, the array it has just made.
SavedPointerBad(v) == 0
SavedPointer(v) == v

\* QuantityData::SaveStep(t, trueSave)
SaveStep(t, trueSave) ==
    /\ trueSave => Len(store) < MaxSaved
    /\ olddata' = qData
    /\ oldtime' = t
    /\ IF trueSave
         THEN LET v == Len(store) + 1
              IN  /\ qheap' = [qheap EXCEPT ![v] = qData]
                  /\ times' = Append(times, t)
                  /\ store' = Append(store, SavedPointer(v))
         ELSE UNCHANGED <<times, store, qheap>>
    /\ qOp' = "SaveStep"
    /\ qArgs' = <<t, trueSave>>
    /\ UNCHANGED <<qData, qChanged, nontrivial_unknowns, matrix_size, nvec,
                   retvec>>

NextQuantity ==
    \/ \E v \in QVectors, c \in BOOLEAN :
          StoreArray(v, c) /\ UNCHANGED besideQuantity
    \/ \E v \in QVectors, c \in BOOLEAN :
          StoreVec(v, c) /\ UNCHANGED besideQuantity
    \/ \E t \in SaveTimes, s \in BOOLEAN :
          SaveStep(t, s) /\ UNCHANGED besideQuantity

SpecQuantity == InitQuantity /\ [][NextQuantity]_vars

\* What a pointer of store points to.
SavedData(old, arrays, p) == IF p = 0 THEN old ELSE arrays[p]

\* Claim C20: a step recorded by SaveStep(t, true) is a copy: no later
\* Store or SaveStep changes a saved (time, data) pair; the saved times and
\* the saved data are always equally many; and a Store adds no saved step
\* and leaves the buffer of the previous time step as it is.
C20_SavedStepsKept ==
    [][/\ Len(times') = Len(store')
       /\ Len(store') >= Len(store)
       /\ \A k \in 1..Len(store) :
            /\ times'[k] = times[k]
            /\ SavedData(olddata', qheap', store'[k])
                 = SavedData(olddata, qheap, store[k])
       /\ qOp' = "Store" => (Len(store') = Len(store) /\ olddata' = olddata)]_vars

\* Two steps are saved with different data, and a Store has since put a
\* third content into data while olddata holds the last saved one.
C20_Witness ==
    /\ qOp = "Store"
    /\ Len(store) = 2
    /\ times = <<1, 2>>
    /\ qheap[store[1]] = <<1, 0>>
    /\ qheap[store[2]] = <<0, 1>>
    /\ olddata = <<0, 1>>
    /\ qData = <<1, 1>>

\* Claim C21: Store with mayBeConstant = true sets hasChanged to false and
\* leaves the data as they are only when the given values equal the
\* current data element by element; when an element differs the data
\* become the given values and hasChanged is true.
C21_ConstantOnlyWhenEqual ==
    [][(qOp' = "Store" /\ qArgs'[2])
         => IF qArgs'[1] = qData
              THEN qChanged' = FALSE /\ qData' = qData
              ELSE qChanged' = TRUE /\ qData' = qArgs'[1]]_vars

(***************************************************************************)
(* QuantityData::SetInitialValue (QuantityData.cpp).                       *)
(***************************************************************************)

\* val == nullptr
NullPointer == << >>

\* HasInitialValue(): a step has been saved.
HasInitialValue == Len(store) > 0

\* The saved step SetInitialValue overwrites: store[0], times[0].
OverwrittenStepBad(st) == Len(st)
OverwrittenStep(st) == 1

\* QuantityData::SetInitialValue(val, t0): Store(init), then SaveStep, a
\* true save when there is no initial value yet.
SetInitialValue(val, t0) ==
    LET init == IF val = NullPointer THEN [i \in 1..QElements |-> 0] ELSE val
        stored == Store(qData, init, FALSE)
    IN  /\ qData' = stored.data
        /\ qChanged' = stored.hasChanged
        /\ olddata' = stored.data
        /\ oldtime' = t0
        /\ IF ~HasInitialValue
             THEN LET v == Len(store) + 1
                  IN  /\ qheap' = [qheap EXCEPT ![v] = stored.data]
                      /\ times' = Append(times, t0)
                      /\ store' = Append(store, SavedPointer(v))
             ELSE LET k == OverwrittenStep(store)
                  IN  /\ times' = [times EXCEPT ![k] = t0]
                      /\ qheap' = IF store[k] = 0 THEN qheap
                                  ELSE [qheap EXCEPT ![store[k]] = init]
                      /\ store' = store
        /\ qOp' = "SetInitialValue"
        /\ qArgs' = <<val, t0>>
        /\ UNCHANGED <<nontrivial_unknowns, matrix_size, nvec, retvec>>

NextInitialValue ==
    \/ \E v \in QVectors, c \in BOOLEAN :
          StoreArray(v, c) /\ UNCHANGED besideQuantity
    \/ \E v \in QVectors, c \in BOOLEAN :
          StoreVec(v, c) /\ UNCHANGED besideQuantity
    \/ \E t \in SaveTimes, s \in BOOLEAN :
          SaveStep(t, s) /\ UNCHANGED besideQuantity
    \/ \E val \in QVectors \cup {NullPointer}, t0 \in SaveTimes :
          SetInitialValue(val, t0) /\ UNCHANGED besideQuantity

SpecInitialValue == InitQuantity /\ [][NextInitialValue]_vars

\* Claim C22: SetInitialValue(val, t0) saves exactly one new step (t0, val)
\* on a quantity without an initial value and overwrites saved step 0 with
\* (t0, val) on one that has it, the number of saved steps staying as it
\* is; data and olddata equal val afterwards (zeros for a null pointer);
\* nothing else of the saved steps changes, so the state after several
\* calls is the one a single call with the last value gives.
C22_InitialValueSet ==
    [][qOp' = "SetInitialValue" =>
         LET val == IF qArgs'[1] = NullPointer
                      THEN [i \in 1..QElements |-> 0] ELSE qArgs'[1]
         IN  /\ qData' = val
             /\ olddata' = val
             /\ Len(times') = Len(store')
             /\ Len(store') = IF Len(store) = 0 THEN 1 ELSE Len(store)
             /\ times'[1] = qArgs'[2]
             /\ SavedData(olddata', qheap', store'[1]) = val
             /\ \A k \in 2..Len(store) :
                  /\ times'[k] = times[k]
                  /\ SavedData(olddata', qheap', store'[k])
                       = SavedData(olddata, qheap, store[k])
             /\ (qOp = "SetInitialValue" /\ qArgs' = qArgs)
                  => (qheap' = qheap /\ times' = times /\ store' = store)]_vars

\* The initial value of a quantity with two saved steps has been set
\* anew: step 0 holds the new value and time, step 1 is as it was.
C22_Witness ==
    /\ qOp = "SetInitialValue"
    /\ qArgs = <<<<1, 1>>, 2>>
    /\ Len(store) = 2
    /\ times = <<2, 1>>
    /\ qheap[store[1]] = <<1, 1>>
    /\ qheap[store[2]] = <<0, 1>>
    /\ qData = <<1, 1>>

(***************************************************************************)
(* BlockMatrix::IMinusDtA on the entries of the matrix (BlockMatrix.cpp).  *)
(***************************************************************************)

MatrixIndices == 0..(matM - 1)

\* ConstructSystem() with the matrix it allocates: no entry set.
ConstructSystemEmpty ==
    /\ ConstructSystem
    /\ mat' = [rc \in (0..(matM' - 1)) \X (0..(matM' - 1)) |-> 0]

\* What the operators have assembled into the matrix before IMinusDtA is
\* called.
AssembledEntry(rc) == 1 + ((rc[1] + 2 * rc[2]) % 3)

AssembleEntries ==
    /\ allocated
    /\ \A rc \in DOMAIN mat : mat[rc] = 0
    /\ mat' = [rc \in DOMAIN mat |-> AssembledEntry(rc)]
    /\ UNCHANGED bmVars

\* v: -dt in the elements offs .. offs + blockn - 1 and zero elsewhere, as
\* VecCreateSeq makes the vector.
ScalingVector(dt) ==
    [c \in MatrixIndices |->
        IF rowOffset <= c /\ c < rowOffset + blockn THEN 0 - dt ELSE 0]

\* MatDiagonalScale(petsc_mat, NULL, v): column c is multiplied by v[c].
MatDiagonalScaleRight(m, v) == [rc \in DOMAIN m |-> m[rc] * v[rc[2]]]

\* SetElement(i, i, 1, ADD_VALUES) for i < blockn.
AddIdentity(m) ==
    [rc \in DOMAIN m |->
        IF \E i \in 0..(blockn - 1) : rc = <<rowOffset + i, colOffset + i>>
          THEN m[rc] + 1 ELSE m[rc]]

\* IMinusDtA(dt), called on a matrix as the assembly left it.
IMinusDtAEntries(dt) ==
    /\ \/ \A rc \in DOMAIN mat : mat[rc] = 0
       \/ \A rc \in DOMAIN mat : mat[rc] = AssembledEntry(rc)
    /\ IMinusDtA(dt)
    /\ mat' = IF bmErr' = "none"
               THEN AddIdentity(MatDiagonalScaleRight(mat, ScalingVector(dt)))
               ELSE mat

ScalingIdle ==
    <<tgrid, termKind, coefSeed, interp, pastEnd, derivIds, derivNMultiples,
      jArgs, xvec, tvec, calls, pcT, lp>>

NextScaling ==
    \/ (\E n \in BlockSizes, nnz \in NnzValues : CreateSubEquation(n, nnz))
          /\ UNCHANGED <<solverVars, termVars, stVars, qVars, compVars>>
    \/ ConstructSystemEmpty
          /\ UNCHANGED <<solverVars, termVars, ScalingIdle, qVars, compVars>>
    \/ AssembleEntries
          /\ UNCHANGED <<solverVars, termVars, ScalingIdle, qVars, compVars>>
    \/ (\E r \in BlockIndices, c \in BlockIndices : SelectSubEquation(r, c))
          /\ UNCHANGED <<solverVars, termVars, stVars, qVars, compVars>>
    \/ (\E dt \in DtValues : IMinusDtAEntries(dt))
          /\ UNCHANGED <<solverVars, termVars, ScalingIdle, qVars, compVars>>

SpecScaling == InitBlockMatrix /\ [][NextScaling]_vars

\* Claim C23: IMinusDtA(dt) turns the block matrix M into I - dt*M: after
\* the call every entry (i, j) of the whole matrix is [i = j] - dt*M(i, j),
\* M being the matrix before the call.
C23_IdentityMinusDtM ==
    [][(bmOp' = "IMinusDtA" /\ bmErr' = "none")
         => \A rc \in DOMAIN mat :
              mat'[rc] = (IF rc[1] = rc[2] THEN 1 ELSE 0) - bmArgs'[1] * mat[rc]]_vars

(***************************************************************************)
(* RadialGrid (RadialGrid.cpp): the momentum grids of the radii and the    *)
(* number of cells of the whole grid.                                      *)
(***************************************************************************)
MaxNr == 3

\* The momentum grids that the radii are given.
MomentumGrids ==
    {[np1 |-> 1, np2 |-> 1], [np1 |-> 2, np2 |-> 1], [np1 |-> 2, np2 |-> 2]}

\* MomentumGrid::GetNCells().
MomentumGridNCells(m) == m.np1 * m.np2

\* Nm after the loop 'for (i = 0; i < Nr; i++) Nm += momentumGrids[i]->GetNCells()'
\* has run over the radii below n.
RECURSIVE SumOfMomentumCells(_, _)
SumOfMomentumCells(grids, n) ==
    IF n = 0 THEN 0
    ELSE SumOfMomentumCells(grids, n - 1) + MomentumGridNCells(grids[n - 1])

\* RadialGrid::GetNCells(): 'return (Nr*Nm)'.
GetNCells ==
    /\ gridOp' = "GetNCells"
    /\ gridRet' = nr * SumOfMomentumCells(momentumGrids, nr)
    /\ UNCHANGED <<nr, momentumGrids>>

\* RadialGrid::SetMomentumGrid(i, m, t0).
SetMomentumGrid(i, m) ==
    /\ i \in 0..(nr - 1)
    /\ momentumGrids' = [momentumGrids EXCEPT ![i] = m]
    /\ gridOp' = "SetMomentumGrid"
    /\ UNCHANGED <<nr, gridRet>>

\* RadialGrid::SetAllMomentumGrids(m, t0).
SetAllMomentumGrids(m) ==
    /\ momentumGrids' = [i \in 0..(nr - 1) |-> m]
    /\ gridOp' = "SetAllMomentumGrids"
    /\ UNCHANGED <<nr, gridRet>>

\* RadialGrid(rg, m, t0): nr radii with the one momentum grid m.
InitRadialGrid ==
    /\ InitBM
    /\ InitSolverIdle
    /\ InitTermNone
    /\ InitStencilNone
    /\ InitQuantityNone
    /\ nr \in 1..MaxNr
    /\ \E m \in MomentumGrids : momentumGrids = [i \in 0..(nr - 1) |-> m]
    /\ gridOp = "none"
    /\ gridRet = 0
    /\ InitSettingsNone
    /\ InitIonsNone
    /\ InitBuffersNone
    /\ InitPXiNone
    /\ InitSPINone

NextRadialGrid ==
    \/ /\ GetNCells
       /\ UNCHANGED besideGrid
    \/ /\ \E i \in 0..(MaxNr - 1), m \in MomentumGrids : SetMomentumGrid(i, m)
       /\ UNCHANGED besideGrid
    \/ /\ \E m \in MomentumGrids : SetAllMomentumGrids(m)
       /\ UNCHANGED besideGrid

SpecRadialGrid == InitRadialGrid /\ [][NextRadialGrid]_vars

\* C24: GetNCells returns the total number of cells of the grid, the sum
\* over the radii ir < nr of the number of cells of the momentum grid at
\* radius ir.
C24_TotalNumberOfCells ==
    gridOp = "GetNCells"
        => gridRet = SumOfMomentumCells(momentumGrids, nr)

(***************************************************************************)
(* Settings (Settings.cpp): the registry of named settings and the calls   *)
(* that throw a SettingsException.                                         *)
(***************************************************************************)
SettingNames == {"n0", "T0"}
ScalarTypes == {"SETTING_TYPE_INT", "SETTING_TYPE_REAL"}
ArrayTypes == {"SETTING_TYPE_INT_ARRAY", "SETTING_TYPE_REAL_ARRAY"}
SettingValues == {0, 1}
\* The shapes 'ndims, dims[]' that arrays are given.
ArrayDims == {<<1>>, <<2>>, <<1, 2>>, <<2, 2>>}

\* The messages of the exceptions.
AlreadyDefined == "The setting has already been defined."
NotDefined == "The setting has not been defined."
NotAsExpected == "The setting is not of the type expected."
InvalidDimensions == "Invalid number of dimensions of array."
NoSettingNamed == "No setting named so exists."
ValueOfOtherType == "The given value is of another type than expected."
InvalidDimensionality == "The given value has an invalid dimensionality."

\* What a call leaves behind: the exception thrown, if any, and the map.
Thrown(msg, reg) == [err |-> msg, reg |-> reg]
Returned(reg) == [err |-> "none", reg |-> reg]

\* settings[name] = s.
Registered(reg, name, s) ==
    [n \in (DOMAIN reg) \cup {name} |-> IF n = name THEN s ELSE reg[n]]

\* _DefineSetting<T>(name, desc, defaultValue, type, mandatory), and with
\* (ndims, dims) the overload for arrays.
DefineSettingIn(reg, name, dims, defaultValue, type, mandatory) ==
    IF name \in DOMAIN reg
      THEN Thrown(AlreadyDefined, reg)
      ELSE Returned(Registered(reg, name,
               [type |-> type, ndims |-> Len(dims), dims |-> dims,
                value |-> defaultValue, used |-> FALSE,
                mandatory |-> mandatory]))

\* The map once 's->used = true' has been done on the setting found.
MarkedUsed(reg, name) == [reg EXCEPT ![name].used = TRUE]

\* _GetSetting(name, type, markused) with the mark made before the type
\* is compared.
GetSettingInBad(reg, name, type, markused) ==
    IF name \notin DOMAIN reg
      THEN Thrown(NotDefined, reg)
      ELSE IF reg[name].type # type
             THEN Thrown(NotAsExpected,
                         IF markused THEN MarkedUsed(reg, name) ELSE reg)
             ELSE Returned(IF markused THEN MarkedUsed(reg, name) ELSE reg)

\* _GetSetting(name, type, markused).
GetSettingIn(reg, name, type, markused) ==
    IF name \notin DOMAIN reg
      THEN Thrown(NotDefined, reg)
      ELSE IF reg[name].type # type
             THEN Thrown(NotAsExpected, reg)
             ELSE Returned(IF markused THEN MarkedUsed(reg, name) ELSE reg)

\* The value of the parameter markused of _GetSetting in the call
\* '_GetSetting(name, type)' that _GetArray makes: the default that the
\* declaration in Settings.hpp gives it.
GetSettingMarkUsedDefault == FALSE

\* _GetArray<T>(name, nExpectedDims, ndims, type, markused).
GetArrayIn(reg, name, nExpectedDims, type, markused) ==
    LET s == GetSettingIn(reg, name, type, GetSettingMarkUsedDefault)
    IN  IF s.err # "none"
          THEN s
          ELSE IF nExpectedDims # s.reg[name].ndims
                 THEN Thrown(InvalidDimensions, s.reg)
                 ELSE Returned(IF markused THEN MarkedUsed(s.reg, name)
                                           ELSE s.reg)

\* _SetSetting<T>(name, value, type).
SetSettingIn(reg, name, value, type) ==
    IF name \notin DOMAIN reg
      THEN Thrown(NoSettingNamed, reg)
      ELSE IF reg[name].type # type
             THEN Thrown(ValueOfOtherType, reg)
             ELSE Returned([reg EXCEPT ![name].value = value])

\* _SetSetting<T>(name, ndims, dims, value, type).
SetSettingArrayIn(reg, name, dims, value, type) ==
    IF name \notin DOMAIN reg
      THEN Thrown(NoSettingNamed, reg)
      ELSE IF reg[name].type # type
             THEN Thrown(ValueOfOtherType, reg)
             ELSE IF reg[name].ndims # Len(dims)
                    THEN Thrown(InvalidDimensionality, reg)
                    ELSE Returned([reg EXCEPT ![name].dims = dims,
                                              ![name].value = value])

\* Settings::MarkUsed(name).
MarkUsedIn(reg, name) ==
    IF name \notin DOMAIN reg
      THEN Thrown(NotDefined, reg)
      ELSE Returned(MarkedUsed(reg, name))

\* A call of the Settings object and what it leaves behind.
SettingsCall(op, r) ==
    /\ setOp' = op
    /\ setErr' = r.err
    /\ settings' = r.reg

\* DefineSetting(name, desc, defaultValue, mandatory) for a scalar.
DefineSetting(name, defaultValue, type, mandatory) ==
    SettingsCall("DefineSetting",
        DefineSettingIn(settings, name, <<1>>, defaultValue, type, mandatory))

\* DefineSetting(name, desc, n, dims, defaultValue, mandatory) for an array.
DefineSettingArray(name, dims, defaultValue, type, mandatory) ==
    SettingsCall("DefineSettingArray",
        DefineSettingIn(settings, name, dims, defaultValue, type, mandatory))

\* GetInteger(name, markused), GetReal(name, markused).
GetScalar(name, type, markused) ==
    SettingsCall("GetScalar", GetSettingIn(settings, name, type, markused))

\* GetIntegerArray, GetRealArray(name, nExpectedDims, ndims, markused).
GetArray(name, nExpectedDims, type, markused) ==
    SettingsCall("GetArray",
        GetArrayIn(settings, name, nExpectedDims, type, markused))

\* MarkUsed(name).
MarkUsed(name) == SettingsCall("MarkUsed", MarkUsedIn(settings, name))

\* SetSetting(name, value) for a scalar.
SetSetting(name, value, type) ==
    SettingsCall("SetSetting", SetSettingIn(settings, name, value, type))

\* SetSetting(name, ndims, dims, value) for an array.
SetSettingArray(name, dims, value, type) ==
    SettingsCall("SetSettingArray",
        SetSettingArrayIn(settings, name, dims, value, type))

\* Settings::Settings().
InitSettings ==
    /\ InitBM
    /\ InitSolverIdle
    /\ InitTermNone
    /\ InitStencilNone
    /\ InitQuantityNone
    /\ InitGridNone
    /\ InitSPINone
    /\ InitIonsNone
    /\ InitBuffersNone
    /\ InitPXiNone
    /\ settings = << >>
    /\ setOp = "none"
    /\ setErr = "none"

NextSettings ==
    \/ /\ \E name \in SettingNames, v \in SettingValues, type \in ScalarTypes :
              DefineSetting(name, v, type, FALSE)
       /\ UNCHANGED besideSettings
    \/ /\ \E name \in SettingNames, dims \in ArrayDims, v \in SettingValues,
             type \in ArrayTypes :
              DefineSettingArray(name, dims, v, type, FALSE)
       /\ UNCHANGED besideSettings
    \/ /\ \E name \in SettingNames, type \in ScalarTypes, markused \in BOOLEAN :
              GetScalar(name, type, markused)
       /\ UNCHANGED besideSettings
    \/ /\ \E name \in SettingNames, n \in {1, 2}, type \in ArrayTypes,
             markused \in BOOLEAN :
              GetArray(name, n, type, markused)
       /\ UNCHANGED besideSettings
    \/ /\ \E name \in SettingNames : MarkUsed(name)
       /\ UNCHANGED besideSettings
    \/ /\ \E name \in SettingNames, v \in SettingValues, type \in ScalarTypes :
              SetSetting(name, v, type)
       /\ UNCHANGED besideSettings
    \/ /\ \E name \in SettingNames, dims \in ArrayDims, v \in SettingValues,
             type \in ArrayTypes :
              SetSettingArray(name, dims, v, type)
       /\ UNCHANGED besideSettings

SpecSettings == InitSettings /\ [][NextSettings]_vars

\* C25: a Settings call that throws a SettingsException (a name defined
\* twice; an undefined name got, set or marked; a value got or set with
\* the wrong type; an array got or set with the wrong number of
\* dimensions) leaves the registry of settings as it was.
C25_ThrowLeavesRegistry ==
    [][setErr' # "none" => settings' = settings]_vars

\* An array has been asked for with the wrong number of dimensions, or set
\* with it, in a registry that holds a setting marked as used.
C25_Witness ==
    /\ setErr \in {InvalidDimensions, InvalidDimensionality}
    /\ \E n \in DOMAIN settings : settings[n].used

(***************************************************************************)
(* SPIHandler (SPIHandler.cpp): the shards' cells and the time averaged    *)
(* delta source.                                                           *)
(***************************************************************************)
\* The field nr, and the shards' coordinates (doubled): the faces of the
\* radial grid are 0, 2, ... 2*nr, and 2*nr + 1 lies outside the plasma.
ShardGridNr == 2
GetR_f(ir) == 2 * ir
ShardCoords == 0..(2 * ShardGridNr + 1)
ShardCounts == {1, 2}

MinOf(a, b) == IF a < b THEN a ELSE b
MaxOf(a, b) == IF a > b THEN a ELSE b

\* The coordinates the shards come from, and those of closest approach.
PreviousCoords == {3}
ClosestCoords == {1}

\* What the geometry of a shard's path from rPrevious to rNext allows: no
\* turning point, or one whose closest approach is not farther out than
\* either end.
TurningPoints(rPrevious, rNext) ==
    {[passed |-> FALSE, closest |-> MinOf(rPrevious, rNext)]}
        \cup {[passed |-> TRUE, closest |-> c] :
                  c \in ClosestCoords \cap (0..MinOf(rPrevious, rNext))}

\* The inner loop of CalculateIrp for one shard, from cell ir on; cur is
\* irp[ip] as the loop found it.
RECURSIVE IrpFrom(_, _, _)
IrpFrom(r, ir, cur) ==
    IF ir >= ShardGridNr THEN cur
    ELSE IF r < GetR_f(ir + 1) /\ r > GetR_f(ir) THEN ir
    ELSE IrpFrom(r, ir + 1, ShardGridNr)

\* SPIHandler::CalculateIrp().
CalculateIrp(rNext, old) ==
    [ip \in DOMAIN rNext |-> IrpFrom(rNext[ip], 0, old[ip])]

\* One averaging step: rSourceMin, rSourceMax, and whether the closest
\* approach it is made with had been computed ("none": made without it).
SourceStep(a, b, approach) ==
    [rSourceMin |-> MinOf(a, b), rSourceMax |-> MaxOf(a, b),
     approach |-> approach]

\* The loop 'while (iSplit < nSplit)' for shard ip, from iSplit on: the
\* steps it takes and the field rCoordPClosestApproach it leaves.  ca is
\* the field as the iteration finds it, fresh whether it has been assigned
\* for this shard.
RECURSIVE SplitSteps(_, _, _, _, _, _, _, _)
SplitSteps(rPrevious, rNext, tp, iSplit, nSplit, ca, fresh, done) ==
    IF iSplit >= nSplit THEN [steps |-> done, ca |-> ca]
    ELSE IF tp.passed
      THEN IF iSplit = 1
             THEN SplitSteps(rPrevious, rNext, tp, iSplit + 1, 2, tp.closest,
                      TRUE,
                      Append(done, SourceStep(rPrevious, tp.closest,
                                              "computed")))
             ELSE SplitSteps(rPrevious, rNext, tp, iSplit + 1, nSplit, ca,
                      fresh,
                      Append(done, SourceStep(ca, rNext,
                          IF fresh THEN "computed" ELSE "not computed")))
      ELSE SplitSteps(rPrevious, rNext, tp, iSplit + 1, nSplit, ca, fresh,
               Append(done, SourceStep(rPrevious, rNext, "none")))

\* The outer loop over the shards from ip on: the steps of every shard.
RECURSIVE ShardSteps(_, _, _, _, _, _)
ShardSteps(rPrevious, rNext, tp, ip, ca, done) ==
    IF ip > Len(rNext) THEN [steps |-> done, ca |-> ca]
    ELSE LET s == SplitSteps(rPrevious[ip], rNext[ip], tp[ip], 0, 1, ca,
                             FALSE, << >>)
         IN  ShardSteps(rPrevious, rNext, tp, ip + 1, s.ca,
                        Append(done, s.steps))

\* Whether the step adds to cell ir, and the term it adds.
StepCovers(st, ir) ==
    ~(GetR_f(ir) > st.rSourceMax \/ GetR_f(ir + 1) < st.rSourceMin)

StepTerm(st, ir) ==
    <<MinOf(GetR_f(ir + 1), st.rSourceMax) - MaxOf(GetR_f(ir), st.rSourceMin),
      st.rSourceMax - st.rSourceMin>>

RECURSIVE TermsOf(_, _, _)
TermsOf(steps, k, ir) ==
    IF k > Len(steps) THEN << >>
    ELSE (IF StepCovers(steps[k], ir) THEN <<StepTerm(steps[k], ir)>>
                                      ELSE << >>)
         \o TermsOf(steps, k + 1, ir)

\* SPIHandler::CalculateTimeAveragedDeltaSourceLocal(timeAveragedDeltaSource)
\* for shards placed at rPrevious and rNext.
CalculateTimeAveragedDeltaSourceLocal(rPrevious, rNext, tp) ==
    LET s == ShardSteps(rPrevious, rNext, tp, 1, rCoordPClosestApproach, << >>)
    IN  /\ sourceSteps' = s.steps
        /\ rCoordPClosestApproach' = s.ca
        /\ timeAveragedDeltaSource' =
               [ip \in 1..nShard |->
                   [ir \in 0..(ShardGridNr - 1) |-> TermsOf(s.steps[ip], 1, ir)]]

\* SPIHandler::Rebuild(dt) with prescribed shard velocities and local
\* deposition: the radial coordinates of the old and the new positions,
\* CalculateIrp(), then CalculateTimeAveragedDeltaSourceLocal().
Rebuild(rPrevious, rNext, tp) ==
    /\ rCoordPPrevious' = rPrevious
    /\ rCoordPNext' = rNext
    /\ turningPoint' = tp
    /\ irp' = CalculateIrp(rNext, irp)
    /\ CalculateTimeAveragedDeltaSourceLocal(rPrevious, rNext, tp)
    /\ spiOp' = "Rebuild"
    /\ UNCHANGED nShard

\* A shard that stays where it is.
AtRest == [passed |-> FALSE, closest |-> 0]

\* SPIHandler::Rebuild(dt) with shards that have no velocity: coordinates
\* and irp are set to 0.
RebuildAtRest ==
    LET zero == [ip \in 1..nShard |-> 0]
        tp == [ip \in 1..nShard |-> AtRest]
    IN  /\ rCoordPPrevious' = zero
        /\ rCoordPNext' = zero
        /\ turningPoint' = tp
        /\ irp' = zero
        /\ CalculateTimeAveragedDeltaSourceLocal(zero, zero, tp)
        /\ spiOp' = "RebuildAtRest"
        /\ UNCHANGED nShard

\* SPIHandler::SPIHandler(): nothing has been computed yet, and the field
\* rCoordPClosestApproach has not been given a value.
InitSPI ==
    /\ InitBM
    /\ InitSolverIdle
    /\ InitTermNone
    /\ InitStencilNone
    /\ InitQuantityNone
    /\ InitGridNone
    /\ InitSettingsNone
    /\ InitIonsNone
    /\ InitBuffersNone
    /\ InitPXiNone
    /\ nShard \in ShardCounts
    /\ rCoordPPrevious = [ip \in 1..nShard |-> 0]
    /\ rCoordPNext = [ip \in 1..nShard |-> 0]
    /\ turningPoint = [ip \in 1..nShard |-> AtRest]
    /\ rCoordPClosestApproach \in ShardCoords
    /\ sourceSteps = [ip \in 1..nShard |-> << >>]
    /\ timeAveragedDeltaSource =
           [ip \in 1..nShard |-> [ir \in 0..(ShardGridNr - 1) |-> << >>]]
    /\ irp = [ip \in 1..nShard |-> 0]
    /\ spiOp = "none"

NextSPI ==
    \/ /\ \E rPrevious \in [1..nShard -> PreviousCoords],
             rNext \in [1..nShard -> ShardCoords] :
          \E tp \in [1..nShard -> UNION {TurningPoints(a, b) :
                                           a, b \in ShardCoords}] :
              /\ \A ip \in 1..nShard :
                     tp[ip] \in TurningPoints(rPrevious[ip], rNext[ip])
              /\ Rebuild(rPrevious, rNext, tp)
       /\ UNCHANGED besideSPI
    \/ /\ RebuildAtRest
       /\ UNCHANGED besideSPI

SpecSPI == InitSPI /\ [][NextSPI]_vars

\* C26: for a shard that passed its turning point the averaging is done in
\* exactly two steps, from the previous position to the closest approach
\* and from the closest approach to the new position, the closest approach
\* being computed before its first use; for any other shard in exactly one
\* step from the previous to the new position.
C26_SplitAtTurningPoint ==
    spiOp \in {"Rebuild", "RebuildAtRest"}
        => \A ip \in 1..nShard :
             sourceSteps[ip] =
               IF turningPoint[ip].passed
                 THEN <<SourceStep(rCoordPPrevious[ip],
                                   turningPoint[ip].closest, "computed"),
                        SourceStep(turningPoint[ip].closest,
                                   rCoordPNext[ip], "computed")>>
                 ELSE <<SourceStep(rCoordPPrevious[ip], rCoordPNext[ip],
                                   "none")>>

\* C27: after CalculateIrp, irp[ip] is the index of the radial cell that
\* contains the shard's radial coordinate for every shard whose coordinate
\* lies inside the radial grid, from r_f(0) to r_f(nr) inclusive, and
\* irp[ip] = nr only for the shards whose coordinate lies outside the grid.
C27_CellOfShard ==
    spiOp = "Rebuild"
        => \A ip \in 1..nShard :
             IF /\ rCoordPNext[ip] >= GetR_f(0)
                /\ rCoordPNext[ip] <= GetR_f(ShardGridNr)
               THEN /\ irp[ip] < ShardGridNr
                    /\ GetR_f(irp[ip]) <= rCoordPNext[ip]
                    /\ rCoordPNext[ip] <= GetR_f(irp[ip] + 1)
               ELSE irp[ip] = ShardGridNr

(***************************************************************************)
(* ConstructEquation_Ions: the initial ion densities, as written by the    *)
(* function of ions.cpp and by the one of that name kept in T_abl.cpp.     *)
(***************************************************************************)
MaxIonCharge == 2

IonRadii == {1, 2, 3}
IonDataTypes == {"ION_DATA_PRESCRIBED", "ION_DATA_TYPE_DYNAMIC"}

\* The ion species of a simulation: one or two, of charge 1..MaxIonCharge.
IonSetups ==
    {[Nr |-> n, Z |-> z, types |-> t] :
        n \in IonRadii,
        z \in [{1} -> 1..MaxIonCharge] \cup [{1, 2} -> 1..MaxIonCharge],
        t \in [{1} -> IonDataTypes] \cup [{1, 2} -> IonDataTypes]}

\* ih->GetIndex(iz, Z0): the index of the charge state Z0 of species iz
\* among all charge states (species are numbered from 1 here).
RECURSIVE GetIndex(_, _, _)
GetIndex(Z, iz, Z0) ==
    IF iz = 1 THEN Z0 ELSE GetIndex(Z, iz - 1, 0) + Z[iz - 1] + 1 + Z0

\* ih->GetNzs(): the number of charge states of all species.
GetNzs(Z) == GetIndex(Z, Len(Z) + 1, 0)

\* dynamic_indices, from species iz on.
RECURSIVE DynamicIndices(_, _)
DynamicIndices(types, iz) ==
    IF iz > Len(types) THEN << >>
    ELSE (IF types[iz] = "ION_DATA_TYPE_DYNAMIC" THEN <<iz>> ELSE << >>)
         \o DynamicIndices(types, iz + 1)

\* The iterations of 'for Z0 <= Z, for ir < Nr' for species iz, in order.
ChargeStateLoop(setup, iz) ==
    [k \in 1..((setup.Z[iz] + 1) * setup.Nr) |->
        [iz |-> iz, Z0 |-> (k - 1) \div setup.Nr, ir |-> (k - 1) % setup.Nr]]

\* The iterations of the whole loop nest, from the d-th dynamic species on.
RECURSIVE DynamicLoop(_, _, _)
DynamicLoop(setup, dyn, d) ==
    IF d > Len(dyn) THEN << >>
    ELSE ChargeStateLoop(setup, dyn[d]) \o DynamicLoop(setup, dyn, d + 1)

\* LoadDataIonR: one value per dynamic charge state and radius, all
\* different.
LoadDataIonR(setup) ==
    LET n == Len(DynamicLoop(setup, DynamicIndices(setup.types, 1), 1))
    IN  [k \in 0..(n - 1) |-> 10 + k]

\* ni after 'ni[i] = 0' and ipp->Evaluate(ni): the prescribed charge states
\* hold their density, written as 1.
PrescribedDensities(setup) ==
    [p \in 0..(GetNzs(setup.Z) * setup.Nr - 1) |->
        IF \E iz \in 1..Len(setup.Z) :
               /\ setup.types[iz] = "ION_DATA_PRESCRIBED"
               /\ p \div setup.Nr \in
                      GetIndex(setup.Z, iz, 0)..GetIndex(setup.Z, iz, setup.Z[iz])
          THEN 1 ELSE 0]

\* ions.cpp: 'for (ir = 0; ir < Nr; ir++, ionOffset++)
\*                ni[idx+Z0*Nr+ir] = dynamic_densities[ionOffset+ir]'.
\* k is the number of the iteration, so that ionOffset = k - 1.
IonsWrite(setup, it, k) ==
    [pos |-> GetIndex(setup.Z, it.iz, 0) + it.Z0 * setup.Nr + it.ir,
     src |-> (k - 1) + it.ir,
     iz |-> it.iz, Z0 |-> it.Z0, ir |-> it.ir]

\* T_abl.cpp: 'for (ir = 0; ir < Nr; ir++)
\*                 ni[(idx+Z0)*Nr+ir] = dynamic_densities[ionOffset+ir];
\*             ionOffset += Nr'.
TablWrite(setup, it, k) ==
    [pos |-> (GetIndex(setup.Z, it.iz, 0) + it.Z0) * setup.Nr + it.ir,
     src |-> ((k - 1) \div setup.Nr) * setup.Nr + it.ir,
     iz |-> it.iz, Z0 |-> it.Z0, ir |-> it.ir]

\* What an element of dynamic_densities reads as: past the end of the
\* array, whatever lies there.
DensityJunk == {-1, -2}
ReadDensity(dd, at, junk) == IF at \in DOMAIN dd THEN dd[at] ELSE junk

\* The array after the assignments ws, from the k-th on.
RECURSIVE Assigned(_, _, _, _, _)
Assigned(arr, dd, ws, k, junk) ==
    IF k > Len(ws) THEN arr
    ELSE Assigned([arr EXCEPT ![ws[k].pos] = ReadDensity(dd, ws[k].src, junk)],
                  dd, ws, k + 1, junk)

\* The initialisation of the dynamic ions with the assignments ws.
InitializeIons(op, ws, junk) ==
    /\ niWrites' = ws
    /\ ni' = Assigned(PrescribedDensities(ionSetup), dynamic_densities, ws, 1,
                      junk)
    /\ ionOp' = op
    /\ UNCHANGED <<ionSetup, dynamic_densities>>

\* SimulationGenerator::ConstructEquation_Ions of ions.cpp.
ConstructEquation_Ions ==
    LET loop == DynamicLoop(ionSetup, DynamicIndices(ionSetup.types, 1), 1)
        ws == [k \in 1..Len(loop) |-> IonsWrite(ionSetup, loop[k], k)]
    IN  \E junk \in DensityJunk :
            /\ (\A k \in 1..Len(ws) : ws[k].src \in DOMAIN dynamic_densities)
                   => junk = -1
            /\ InitializeIons("ConstructEquation_Ions", ws, junk)

\* SimulationGenerator::ConstructEquation_Ions as T_abl.cpp has it.
ConstructEquation_Ions_T_abl ==
    LET loop == DynamicLoop(ionSetup, DynamicIndices(ionSetup.types, 1), 1)
        ws == [k \in 1..Len(loop) |-> TablWrite(ionSetup, loop[k], k)]
    IN  InitializeIons("ConstructEquation_Ions_T_abl", ws, -1)

\* The settings are loaded: the species and their initial densities.
InitIons ==
    /\ InitBM
    /\ InitSolverIdle
    /\ InitTermNone
    /\ InitStencilNone
    /\ InitQuantityNone
    /\ InitGridNone
    /\ InitSettingsNone
    /\ InitSPINone
    /\ InitBuffersNone
    /\ InitPXiNone
    /\ ionSetup \in IonSetups
    /\ Len(ionSetup.Z) = Len(ionSetup.types)
    /\ dynamic_densities = LoadDataIonR(ionSetup)
    /\ ni = << >>
    /\ niWrites = << >>
    /\ ionOp = "none"

NextIons ==
    \/ /\ ConstructEquation_Ions
       /\ UNCHANGED besideIons
    \/ /\ ConstructEquation_Ions_T_abl
       /\ UNCHANGED besideIons

SpecIons == InitIons /\ [][NextIons]_vars

\* C28: the initial ion densities are laid out charge state by charge
\* state and, within a charge state, radius by radius: the density of the
\* charge state of index k = GetIndex(species, 0) + Z0 at radius ir is
\* written at k*Nr + ir, the dynamic densities are consumed in order, each
\* written to exactly one position, no two writes share a position, and
\* every position lies inside the vector of (number of charge states)*Nr
\* elements.
C28_ChargeStateMajor ==
    ionOp # "none"
        => /\ \A k \in 1..Len(niWrites) :
                /\ niWrites[k].pos =
                       (GetIndex(ionSetup.Z, niWrites[k].iz, 0)
                            + niWrites[k].Z0) * ionSetup.Nr + niWrites[k].ir
                /\ niWrites[k].src = k - 1
                /\ niWrites[k].pos < GetNzs(ionSetup.Z) * ionSetup.Nr
           /\ \A k, l \in 1..Len(niWrites) :
                niWrites[k].pos = niWrites[l].pos => k = l
           /\ Len(niWrites) = Cardinality(DOMAIN dynamic_densities)

(***************************************************************************)
(* AdvectionTerm / DiffusionTerm: every array the term makes with new, and *)
(* what becomes of it.                                                     *)
(***************************************************************************)
MaxAllocations == 7

BufferKinds == {"advection", "diffusion"}
MultipleCounts == {1, 2}

\* new: the array made next, and the arrays after it is made.
NextPointer(a) == Len(a) + 1
New(a, what, owner) ==
    Append(a, [what |-> what, owner |-> owner, deleted |-> 0])

\* delete [] p, for p # nullptr.
DeleteArray(a, p) == [a EXCEPT ![p].deleted = @ + 1]

\* 'if (p != nullptr) { delete [] p[0]; delete [] p; }'
DeleteUnlessNull(a, p) == IF p # 0 THEN DeleteArray(a, p) ELSE a

\* DeallocateCoefficients().
DeallocateCoefficientArrays(a, p) == DeleteUnlessNull(a, p)

\* AdvectionTerm::DeallocateDifferentiationCoefficients(): df2, df1 and dfr
\* with their element 0, and JacobianColumn.
\* DiffusionTerm::DeallocateDifferentiationCoefficients(): ddrr ... dd22
\* with their element 0.
DeallocateDifferentiationArrays(a, d) ==
    DeleteUnlessNull(DeleteUnlessNull(a, d.df), d.jc)

\* The arrays of the further multiples n = 1 .. nMultiples - 1 made by
\* 'dfr[n*(nr+1)] = new real_t[...]' etc., from the n-th on.
RECURSIVE NewMultiples(_, _, _)
NewMultiples(a, n, nMultiples) ==
    IF n >= nMultiples THEN a
    ELSE NewMultiples(New(a, "df of a further multiple", "term"), n + 1,
                      nMultiples)

\* The body of AllocateDifferentiationCoefficients() as the class of the
\* term has it: what it leaves in the heap and in the pointers.
DifferentiationArrays(a, d, setup) ==
    IF setup.kind = "advection"
      THEN LET a0 == DeallocateDifferentiationArrays(a, d)
               a1 == New(a0, "df", "term")
               a2 == New(a1, "df1pSqAtZero", "term")
               a3 == New(a2, "JacobianColumn", "term")
               a4 == NewMultiples(a3, 1, setup.nMultiples)
           IN  [heap |-> a4,
                ptr |-> [df |-> NextPointer(a0), pSq |-> NextPointer(a1),
                         jc |-> NextPointer(a2),
                         more |-> [n \in 1..(setup.nMultiples - 1) |->
                                      NextPointer(a3) + n - 1]]]
      ELSE [heap |-> New(a, "dd", "term"),
            ptr |-> [df |-> NextPointer(a), pSq |-> 0, jc |-> 0,
                     more |-> << >>]]

\* The number of arrays AllocateDifferentiationCoefficients() makes.
DifferentiationArrayCount(setup) ==
    IF setup.kind = "advection" THEN 2 + setup.nMultiples ELSE 1

\* The body of AllocateCoefficients(): the arrays in use are deleted unless
\* they are shared, new ones are made and marked as the term's own.
CoefficientArrays(a) ==
    New(IF ~shared THEN DeallocateCoefficientArrays(a, coefPtr) ELSE a,
        "coefficients", "term")

\* Another owner makes coefficient arrays.
ExternalArrays ==
    /\ bufLife = "alive"
    /\ Len(allocations) < MaxAllocations
    /\ allocations' = New(allocations, "coefficients", "other")
    /\ bufOp' = "ExternalArrays"
    /\ UNCHANGED <<coefPtr, diffPtr, shared, bufSetup, bufLife>>

\* AdvectionTerm(rg, allocCoeffs), DiffusionTerm(rg, allocCoefficients).
TermConstructor(allocCoeffs) ==
    /\ bufLife = "none"
    /\ bufLife' = "alive"
    /\ bufOp' = "Constructor"
    /\ IF allocCoeffs
         THEN /\ allocations' = CoefficientArrays(allocations)
              /\ coefPtr' = NextPointer(allocations)
         ELSE UNCHANGED <<allocations, coefPtr>>
    /\ UNCHANGED <<diffPtr, shared, bufSetup>>

\* AllocateCoefficients().
TermAllocateCoefficients ==
    /\ bufLife = "alive"
    /\ Len(allocations) < MaxAllocations
    /\ allocations' = CoefficientArrays(allocations)
    /\ coefPtr' = NextPointer(allocations)
    /\ shared' = FALSE
    /\ bufOp' = "AllocateCoefficients"
    /\ UNCHANGED <<diffPtr, bufSetup, bufLife>>

\* AllocateDifferentiationCoefficients().
TermAllocateDifferentiationCoefficients ==
    /\ bufLife = "alive"
    /\ Len(allocations) + DifferentiationArrayCount(bufSetup) <= MaxAllocations
    /\ LET d == DifferentiationArrays(allocations, diffPtr, bufSetup)
       IN  /\ allocations' = d.heap
           /\ diffPtr' = d.ptr
    /\ bufOp' = "AllocateDifferentiationCoefficients"
    /\ UNCHANGED <<coefPtr, shared, bufSetup, bufLife>>

\* SetCoefficients(...) with the arrays b of another owner.
TermSetCoefficients(b) ==
    /\ bufLife = "alive"
    /\ b \in DOMAIN allocations
    /\ allocations[b].owner = "other"
    /\ allocations[b].deleted = 0
    /\ b # coefPtr
    /\ allocations' = DeallocateCoefficientArrays(allocations, coefPtr)
    /\ coefPtr' = b
    /\ shared' = TRUE
    /\ bufOp' = "SetCoefficients"
    /\ UNCHANGED <<diffPtr, bufSetup, bufLife>>

\* AdvectionTerm::GridRebuilt(): AllocateCoefficients() unless shared, then
\* AllocateDifferentiationCoefficients().
\* DiffusionTerm::GridRebuilt(): AllocateCoefficients() unless shared.
TermGridRebuilt ==
    /\ bufLife = "alive"
    /\ Len(allocations) + 1 + DifferentiationArrayCount(bufSetup)
           <= MaxAllocations
    /\ LET a1 == IF ~shared THEN CoefficientArrays(allocations)
                            ELSE allocations
           d == IF bufSetup.kind = "advection"
                  THEN DifferentiationArrays(a1, diffPtr, bufSetup)
                  ELSE [heap |-> a1, ptr |-> diffPtr]
       IN  /\ allocations' = d.heap
           /\ diffPtr' = d.ptr
           /\ coefPtr' = IF ~shared THEN NextPointer(allocations) ELSE coefPtr
    /\ bufOp' = "GridRebuilt"
    /\ UNCHANGED <<shared, bufSetup, bufLife>>

\* ~AdvectionTerm(): DeallocateCoefficients() unless shared, then
\* DeallocateDifferentiationCoefficients().
\* ~DiffusionTerm(): DeallocateCoefficients() unless shared.
TermDestructor ==
    /\ bufLife = "alive"
    /\ LET a1 == IF ~shared
                   THEN DeallocateCoefficientArrays(allocations, coefPtr)
                   ELSE allocations
       IN  allocations' = IF bufSetup.kind = "advection"
                            THEN DeallocateDifferentiationArrays(a1, diffPtr)
                            ELSE a1
    /\ bufLife' = "destroyed"
    /\ bufOp' = "Destructor"
    /\ UNCHANGED <<coefPtr, diffPtr, shared, bufSetup>>

\* No term yet; its class and the number of multiples are known.
InitBuffers ==
    /\ InitBM
    /\ InitSolverIdle
    /\ InitTermNone
    /\ InitStencilNone
    /\ InitQuantityNone
    /\ InitGridNone
    /\ InitSettingsNone
    /\ InitSPINone
    /\ InitIonsNone
    /\ InitPXiNone
    /\ allocations = << >>
    /\ coefPtr = 0
    /\ diffPtr = NoDiffPtr
    /\ shared = FALSE
    /\ bufSetup \in [kind : BufferKinds, nMultiples : MultipleCounts]
    /\ bufLife = "none"
    /\ bufOp = "none"

NextBuffers ==
    \/ /\ ExternalArrays
       /\ UNCHANGED besideBuffers
    \/ /\ \E allocCoeffs \in BOOLEAN : TermConstructor(allocCoeffs)
       /\ UNCHANGED besideBuffers
    \/ /\ TermAllocateCoefficients
       /\ UNCHANGED besideBuffers
    \/ /\ TermAllocateDifferentiationCoefficients
       /\ UNCHANGED besideBuffers
    \/ /\ \E b \in 1..MaxAllocations : TermSetCoefficients(b)
       /\ UNCHANGED besideBuffers
    \/ /\ TermGridRebuilt
       /\ UNCHANGED besideBuffers
    \/ /\ TermDestructor
       /\ UNCHANGED besideBuffers

SpecBuffers == InitBuffers /\ [][NextBuffers]_vars

\* C29: whatever the sequence of construction, AllocateCoefficients,
\* AllocateDifferentiationCoefficients, SetCoefficients, GridRebuilt and
\* destruction, every array the term itself allocated (coefficients and
\* differentiation coefficients of all multiples) is released exactly
\* once: none is deleted twice, and none remains once the destructor has
\* run.
C29_ReleasedExactlyOnce ==
    \A p \in DOMAIN allocations :
        allocations[p].owner = "term"
            => /\ allocations[p].deleted <= 1
               /\ bufLife = "destroyed" => allocations[p].deleted = 1

(***************************************************************************)
(* PXiExternalKineticKinetic::__SetElements: the walk over the pitch cells *)
(* of the lower and of the upper grid.                                     *)
(***************************************************************************)
XiCells == 3

\* GetNp1() of both momentum grids.
PXiNp == 2

ConditionTypes == {"TYPE_LOWER", "TYPE_UPPER", "TYPE_DENSITY"}

\* The faces of a pitch grid over the interval from 0 to XiCells whose
\* inner faces are those of S, from face value k on.
RECURSIVE FacesFrom(_, _)
FacesFrom(k, S) ==
    IF k > XiCells THEN << >>
    ELSE (IF k \in S \cup {0, XiCells} THEN <<k>> ELSE << >>)
         \o FacesFrom(k + 1, S)

XiGrids == {FacesFrom(0, S) : S \in SUBSET (1..(XiCells - 1))}

\* GetNp2() of a grid with the faces f; f[k] for the face k; the width of
\* cell k.
Nxi(f) == Len(f) - 1
FaceAt(f, k) == IF k + 1 \in DOMAIN f THEN f[k + 1] ELSE -1
CellWidth(f, k) == FaceAt(f, k + 1) - FaceAt(f, k)

\* dxiBar = min(lxi_f[j+1], uxi_f[J+1]) - max(lxi_f[j], uxi_f[J]).
DxiBar(g, j, J) ==
    MinOf(FaceAt(g.lxi_f, j + 1), FaceAt(g.uxi_f, J + 1))
        - MaxOf(FaceAt(g.lxi_f, j), FaceAt(g.uxi_f, J))

\* The test that lets the do-loop go on to the next cell of the other
\* grid: its face lies beyond the end of the current cell.
EndsWithinBad(other, own) == other < own
EndsWithin(other, own) == other <= own

\* 'for (j = 0, J = 0; j < lnxi && J < unxi;)' lets the body run.
ForEnter ==
    /\ pxiPc = "for"
    /\ pxiLoop.j < Nxi(pxiGrid.lxi_f)
    /\ pxiLoop.J < Nxi(pxiGrid.uxi_f)
    /\ pxiPc' = "do"
    /\ UNCHANGED <<pxiGrid, pxiType, pxiLoop, pxiCalls, pxiBadRead>>

\* One pass of the body of the do-loop for the cells j and J: the calls of
\* fLow and fUpp, then the step of the summation index and, when the loop
\* is left, the step of the other index.
DoBody ==
    /\ pxiPc = "do"
    /\ LET j == pxiLoop.j
           J == pxiLoop.J
           lnxi == Nxi(pxiGrid.lxi_f)
           unxi == Nxi(pxiGrid.uxi_f)
           lidx == j * PXiNp + PXiNp - 1
           uidx == J * PXiNp
           fidx == IF pxiType = "TYPE_LOWER" THEN pxiLoop.loffset + lidx
                   ELSE IF pxiType = "TYPE_UPPER" THEN pxiLoop.uoffset + uidx
                   ELSE pxiLoop.ir
           lower == pxiType \in {"TYPE_LOWER", "TYPE_DENSITY"}
           stepJ == /\ lower
                    /\ J < unxi
                    /\ EndsWithin(FaceAt(pxiGrid.uxi_f, J + 1),
                                  FaceAt(pxiGrid.lxi_f, j + 1))
           stepj == /\ ~stepJ
                    /\ pxiType = "TYPE_UPPER"
                    /\ j < lnxi
                    /\ EndsWithin(FaceAt(pxiGrid.lxi_f, j + 1),
                                  FaceAt(pxiGrid.uxi_f, J + 1))
           j1 == IF stepj THEN j + 1 ELSE j
           J1 == IF stepJ THEN J + 1 ELSE J
           goesOn == \/ stepJ /\ FaceAt(pxiGrid.uxi_f, J1)
                                     # FaceAt(pxiGrid.lxi_f, j + 1)
                     \/ stepj /\ FaceAt(pxiGrid.lxi_f, j1)
                                     # FaceAt(pxiGrid.uxi_f, J + 1)
       IN  /\ pxiCalls' = Append(pxiCalls,
                  [ir |-> pxiLoop.ir, j |-> j, J |-> J,
                   dxiBar |-> DxiBar(pxiGrid, j, J), fidx |-> fidx,
                   lcol |-> pxiLoop.loffset + lidx,
                   ucol |-> pxiLoop.uoffset + uidx])
           /\ pxiBadRead' = (pxiBadRead \/ j >= lnxi \/ J >= unxi)
           /\ IF goesOn
                THEN /\ pxiLoop' = [pxiLoop EXCEPT !.j = j1, !.J = J1]
                     /\ pxiPc' = "do"
                ELSE /\ pxiLoop' = [pxiLoop EXCEPT
                                       !.j = IF lower THEN j1 + 1 ELSE j1,
                                       !.J = IF lower THEN J1 ELSE J1 + 1]
                     /\ pxiPc' = "for"
    /\ UNCHANGED <<pxiGrid, pxiType>>

\* The loop over j, J is over: 'loffset += lnp*lnxi; uoffset += unp*unxi',
\* and the next radius, if any.
RadiusEnd ==
    /\ pxiPc = "for"
    /\ ~(pxiLoop.j < Nxi(pxiGrid.lxi_f) /\ pxiLoop.J < Nxi(pxiGrid.uxi_f))
    /\ pxiLoop' = [ir |-> pxiLoop.ir + 1, j |-> 0, J |-> 0,
                   loffset |-> pxiLoop.loffset + PXiNp * Nxi(pxiGrid.lxi_f),
                   uoffset |-> pxiLoop.uoffset + PXiNp * Nxi(pxiGrid.uxi_f)]
    /\ pxiPc' = IF pxiLoop.ir + 1 < pxiGrid.nr THEN "for" ELSE "done"
    /\ UNCHANGED <<pxiGrid, pxiType, pxiCalls, pxiBadRead>>

\* __SetElements is entered: two pitch grids over the same interval.
InitPXi ==
    /\ InitBM
    /\ InitSolverIdle
    /\ InitTermNone
    /\ InitStencilNone
    /\ InitQuantityNone
    /\ InitGridNone
    /\ InitSettingsNone
    /\ InitSPINone
    /\ InitIonsNone
    /\ InitBuffersNone
    /\ pxiGrid \in [lxi_f : XiGrids, uxi_f : XiGrids, nr : {1, 2}]
    /\ pxiType \in ConditionTypes
    /\ pxiLoop = [ir |-> 0, j |-> 0, J |-> 0, loffset |-> 0, uoffset |-> 0]
    /\ pxiCalls = << >>
    /\ pxiBadRead = FALSE
    /\ pxiPc = "for"

NextPXi ==
    \/ /\ ForEnter
       /\ UNCHANGED besidePXi
    \/ /\ DoBody
       /\ UNCHANGED besidePXi
    \/ /\ RadiusEnd
       /\ UNCHANGED besidePXi

\* The function runs on until it returns.
SpecPXi == InitPXi /\ [][NextPXi]_vars /\ WF_vars(NextPXi)

\* The calls made at radius ir for the cells j and J.
CallsFor(ir, j, J) ==
    {k \in DOMAIN pxiCalls :
        pxiCalls[k].ir = ir /\ pxiCalls[k].j = j /\ pxiCalls[k].J = J}

\* The sum of the overlaps of the calls of the set K.
RECURSIVE OverlapSum(_)
OverlapSum(K) ==
    IF K = {} THEN 0
    ELSE LET k == CHOOSE x \in K : TRUE
         IN  pxiCalls[k].dxiBar + OverlapSum(K \ {k})

\* The pairs of cells that overlap.
Overlapping(j, J) == DxiBar(pxiGrid, j, J) > 0

\* C30: __SetElements terminates for any two pitch grids over the same
\* interval, never reads a cell j >= lnxi or J >= unxi, and runs its body
\* exactly once for every pair (j, J) of overlapping cells and for no
\* other pair, so that the overlaps of a cell add up to its width.
C30_EveryOverlapOnce ==
    /\ [](/\ ~pxiBadRead
          /\ pxiPc = "done" =>
                \A ir \in 0..(pxiGrid.nr - 1) :
                    /\ \A j \in 0..(Nxi(pxiGrid.lxi_f) - 1),
                          J \in 0..(Nxi(pxiGrid.uxi_f) - 1) :
                           Cardinality(CallsFor(ir, j, J))
                               = IF Overlapping(j, J) THEN 1 ELSE 0
                    /\ \A k \in DOMAIN pxiCalls :
                           /\ pxiCalls[k].j < Nxi(pxiGrid.lxi_f)
                           /\ pxiCalls[k].J < Nxi(pxiGrid.uxi_f)
                    /\ \A j \in 0..(Nxi(pxiGrid.lxi_f) - 1) :
                           OverlapSum({k \in DOMAIN pxiCalls :
                                          pxiCalls[k].ir = ir
                                              /\ pxiCalls[k].j = j})
                               = CellWidth(pxiGrid.lxi_f, j)
                    /\ \A J \in 0..(Nxi(pxiGrid.uxi_f) - 1) :
                           OverlapSum({k \in DOMAIN pxiCalls :
                                          pxiCalls[k].ir = ir
                                              /\ pxiCalls[k].J = J})
                               = CellWidth(pxiGrid.uxi_f, J))
    /\ <>(pxiPc = "done")

\* The function has returned for a lower grid of the cells [0,1] and [1,3]
\* and an upper grid of the cells [0,2] and [2,3] at two radii: a cell
\* that overlaps two cells of the other grid, on either side.
C30_Witness ==
    /\ pxiPc = "done"
    /\ pxiType = "TYPE_LOWER"
    /\ pxiGrid = [lxi_f |-> <<0, 1, 3>>, uxi_f |-> <<0, 2, 3>>, nr |-> 2]
    /\ Len(pxiCalls) = 6

====
